---- MODULE Spec2Model ----
(***************************************************************************)
(* Model of the mqrun server: the filesystem request protocol              *)
(* (mqrun/fscall.py) and the two-gate task scheduler (mqrun/mqdaemon.py).  *)
(*                                                                         *)
(* Spec        one server process: its discovery loop (listen), serve, and *)
(*             one MQJob worker thread per yielded request, with the two   *)
(*             semaphores and the engine child process.                    *)
(* SpecListen  several discovery loops (server processes) racing for the   *)
(*             same listen directory; the workers they start do not move.  *)
(* SpecLegacy  the discovery loops of the top-level modules (fscall.py,    *)
(*             mqdaemon.py beside the package), which match task_re as a   *)
(*             prefix.                                                     *)
(* SpecSubmit  one client future (fscall.submit) against one server, with  *)
(*             the heartbeat writer thread and a clock in seconds.         *)
(* SpecServe   serve with every maxtasks from 0 to MaxTasks.               *)
(* SpecPrepare one request per kind of input file set (parameter files by  *)
(*             stem, subdirectory and case; .sha sidecars) through the     *)
(*             preparation of the worker.                                  *)
(* SpecRun     Spec with tasks whose worker meets an exception that        *)
(*             _execute_task does not catch itself.                        *)
(* SpecMerge   MQParamSet.update_data (rec_update) on small mappings.      *)
(* SpecImage   vmcall.prepare_data_image followed by extract_from_image.   *)
(* SpecXml     mqparams.data_to_xml followed by xml_to_data, on documents  *)
(*             with the rawFiles section and the output folders.           *)
(* SpecFuture  one FSFuture on its own: its thread (_run), result,         *)
(*             exception and the callback threads of add_done_callback.    *)
(* SpecStatus  FSRequest.status writing STATUS while a client reads it.    *)
(* SpecDecode  mqparams.decode on the text of one leaf.                    *)
(* SpecMqrun   mqparams.mqrun: the paths of raw and fasta files, then the  *)
(*             engine.                                                     *)
(* SpecPresets the preset table and the documents of several requests as   *)
(*             objects of a heap, through the merges of update_data.       *)
(*                                                                         *)
(* The filesystem is assumed to work: _write_file's IOError branch (log    *)
(* critical, carry on) is not taken.  Time is counted in polling periods   *)
(* of the engine wait (communicate(timeout=5)).  A scan visits the         *)
(* directories in one fixed order.                                         *)
(* In SpecSubmit the clock counts seconds, and a thread that is at a step  *)
(* which takes no time moves before the clock does.  The last line of      *)
(* BEAT parses as a timestamp once the file exists.                        *)
(*                                                                         *)
(* virt-make-fs and guestfish are assumed to behave as their manuals say.  *)
(* The schema and the presets of mqparams are data files; the model takes  *)
(* a schema with a string, a list of strings and a list of lists of        *)
(* strings, and one preset.                                                *)
(*                                                                         *)
(* MQDaemon.__init__ calls fscall.listen with a keyword it does not take   *)
(* (outdir); the model composes listen, serve and MQJob as serve does,     *)
(* with the listener built from listendir and task_re.                     *)
(***************************************************************************)
EXTENDS Integers, FiniteSets, Sequences, TLC

\* ------------------------------------------------------------------ bounds
NumDirs == 2
NumListeners == 2
MaxPolls == 3
CfgMqTimeout == 1

\* num_workers of the server (MQDaemon's default is 2)
num_workers == 1

\* the clock of the timed specification stops here (seconds)
MaxTime == 32
\* the largest maxtasks a server is started with
MaxTasks == 2

\* FSRequest.beat(interval=5), FSFuture's beat_timeout and timeout defaults
\* (seconds), and the beat_timeout a caller passes to submit
BeatInterval == 5
DefaultBeatTimeout == 30
DefaultTimeout == 30
ArgBeatTimeout == 10

Dirs == 1..NumDirs
StaleDir == NumDirs
Listeners == 1..NumListeners
None == "None"
\* float('inf'): larger than every elapsed time the model reaches
Inf == MaxPolls + 2

\* ------------------------------------------------------------ request data
\* An input file is <<stem, suffix>>; a request directory is created with one
\* of these sets of input files.
GoodFiles == {<<"input1", ".raw">>, <<"params", ".yaml">>}
NoParamFiles == {<<"input1", ".raw">>}
TwoParamFiles == {<<"a", ".yaml">>, <<"b", ".json">>, <<"input1", ".raw">>}
FileSets == {GoodFiles, NoParamFiles}

\* a file in a subdirectory of the request directory is <<stem, suffix, subdir>>
SameStemParamFiles == {<<"a", ".yaml">>, <<"a", ".json">>, <<"input1", ".raw">>}
SubdirParamFiles ==
  {<<"params", ".yaml">>, <<"params", ".yaml", "sub">>, <<"input1", ".raw">>}
UpperCaseParamFiles == {<<"P", ".YAML">>, <<"Q", ".Json">>, <<"input1", ".RAW">>}

\* hashlib.sha256 of the content of a file, as a name for the digest
checksum(f) == "sha256 of " \o f[1] \o f[2]

\* a checksum sidecar is <<stem, ".sha", lines>>; a line is the sequence of
\* its whitespace-separated words, <<>> a blank line
ShaFile(f, lines) == <<f[1], ".sha", lines>>
GoodShaFiles ==
  GoodFiles \cup {ShaFile(<<"input1", ".raw">>,
                          << <<checksum(<<"input1", ".raw">>), "input1.raw">>, <<>> >>)}
BadShaFiles ==
  GoodFiles \cup {ShaFile(<<"input1", ".raw">>, << <<"0000", "input1.raw">> >>)}
MalformedShaFiles ==
  GoodFiles \cup {ShaFile(<<"input1", ".raw">>,
                          << <<checksum(<<"input1", ".raw">>)>>, <<"0000">> >>)}
EmptyShaFiles == GoodFiles \cup {ShaFile(<<"input1", ".raw">>, << <<>> >>)}

PrepareFileSets ==
  {GoodFiles, NoParamFiles, TwoParamFiles, SameStemParamFiles, SubdirParamFiles,
   UpperCaseParamFiles, GoodShaFiles, BadShaFiles, MalformedShaFiles,
   EmptyShaFiles}

\* Directory names, and the configured task_re (a literal pattern).
DirName(d) == IF d % 2 = 1 THEN <<"t">> ELSE <<"t", "x">>
\* <<>> is task_re=None (or the empty pattern, which is falsy too)
TaskReChoices == {<<>>, <<"t">>}

VARIABLES
  task_re,      \* configuration: <<>> or the pattern
  dirs,         \* request directories that exist in the listen directory
  fs,           \* fs[d]: names of the protocol files present in directory d
  infiles,      \* infiles[d]: the input files the client put into d
  text,         \* text[d][f]: content of the file f of d (STATUS, FAILED, SUCCESS)
  lpc,          \* lpc[l]: position of discovery loop l
  todo,         \* todo[l]: directories of the current scan not yet visited
  cur,          \* cur[l]: the directory loop l is handling
  created,      \* created[d]: how many exclusive creates of STARTED succeeded
  yielded,      \* yielded[d]: how many Requests were yielded for d
  skipped,      \* skipped[d]: a scan passed over d, which holds no START yet
  prepare_sem,  \* free permits of the prepare gate
  mq_sem,       \* free permits of the execute gate
  pc,           \* pc[d]: position of the worker thread of request d
  stop_beating_flag, \* stop_beating_flag[d]: FSRequest._stop_beating_flag
  engine,       \* engine[d]: state of the engine child process
  elapsed,      \* elapsed[d]: polling periods the running engine has been polled
  after,        \* after[d]: where the worker continues once error() returns
  errmsg,       \* errmsg[d]: the message passed to error()
  hist,         \* hist[d]: what the worker has done so far (history)
  maxtasks,     \* configuration: <<>> (None) or <<n>>, the argument of serve
  tasks,        \* tasks[l]: requests for which serve of server l started a worker
  now,          \* the time in seconds
  beat,         \* beat[d]: the timestamp on the last line of BEAT, -1: no BEAT
  bpc,          \* bpc[d]: position of the heartbeat writer thread of request d
  bwake,        \* bwake[d]: when the writer's time.sleep(interval) ends
  fut,          \* the FSFuture of a client that called submit
  call,         \* a function or an object applied on its own: arguments, result
  vm            \* vmcall: the data directory, the image and the destination

vars == <<task_re, call, vm, dirs, fs, infiles, text, lpc, todo, cur, created, yielded,
          skipped,
          prepare_sem, mq_sem, pc, stop_beating_flag, engine, elapsed, after,
          errmsg, hist, maxtasks, tasks, now, beat, bpc, bwake, fut>>

beatVars == <<beat, bpc, bwake>>
\* what no step of a server or of a client future writes
confVars == <<task_re, call, vm>>
\* what neither the discovery loop nor a worker writes
envVars == <<dirs, infiles, maxtasks, now, beatVars, fut>>
listenVars == <<lpc, todo, cur, created, yielded, skipped, tasks>>
workerVars == <<prepare_sem, mq_sem, pc, stop_beating_flag, engine, elapsed,
                after, errmsg, hist>>

\* ------------------------------------------------------------- filesystem
ProtocolTexts == {"STATUS", "FAILED", "SUCCESS"}

\* Path.exists() of <d>/<name>
exists(d, name) == name \in fs[d]

\* FSRequest._write_file: open(<d>/<filename>, 'w') and write the message
write_file(d, filename, message) ==
  /\ fs' = [fs EXCEPT ![d] = @ \cup {filename}]
  /\ text' = [text EXCEPT ![d][filename] = IF message = None THEN "" ELSE message]

\* FSRequest.status: overwrite STATUS with the label
status(d, label) ==
  /\ write_file(d, "STATUS", label)
  /\ hist' = [hist EXCEPT ![d].labels = Append(@, label)]

\* re.fullmatch(task_re, name) for a literal pattern
fullmatch(re, name) == name = re

\* the START test left out
start_unchecked(d) == TRUE

\* (dir / "START").exists()
start_exists(d) == exists(d, "START")

\* STARTED opened with mode 'w': never raises
open_w_fails(d) == FALSE

\* (dir / "STARTED").open('x') raises FileExistsError
open_x_fails(d) == exists(d, "STARTED")

\* (dir / "output").mkdir() raises FileExistsError
mkdir_output_fails(d) == exists(d, "output")

\* ------------------------------------------------------------ bucket_files
\* str.lower() of the suffixes that occur
lower(suffix) ==
  CASE suffix = ".YAML" -> ".yaml"
    [] suffix = ".Json" -> ".json"
    [] suffix = ".RAW" -> ".raw"
    [] OTHER -> suffix

\* FSRequest.__init__: self._infiles, the files below the request directory
\* except START, STARTED and the checksum files
request_infiles(F) == {f \in F : lower(f[2]) \notin {".sha", ".md5"}}

IsData(f) == lower(f[2]) \in {".raw", ".fasta"}
IsParam(f) == lower(f[2]) \in {".yaml", ".json"}
\* datafiles / param_files are dicts keyed by the stem
param_files(F) == {f[1] : f \in {g \in F : IsParam(g)}}
NotUnique(F) == \E f, g \in F : IsData(f) /\ IsData(g) /\ f # g /\ f[1] = g[1]
\* "ok" or the message of the ValueError bucket_files raises
bucket_files(F) ==
  IF NotUnique(F) THEN "File name not unique"
  ELSE IF Cardinality(param_files(F)) > 1 THEN "Too many parameter files"
  ELSE IF Cardinality(param_files(F)) = 0 THEN "No parameter file"
  ELSE "ok"

\* ----------------------------------------------------------- do_checksums
\* file.with_suffix('.sha'), if it can be opened: the sidecars of f in F
sha_files(f, F) ==
  {g \in F : Len(g) = 3 /\ g[2] = ".sha" /\ g[1] = f[1] /\ Len(f) = 2}

\* lines = [line for line in lines if line.strip() != ""]
non_blank(lines) == SelectSeq(lines, LAMBDA line : line # <<>>)

\* check_checksum: "ok" (also when there is no sidecar: a warning) or the
\* message of the ValueError
check_checksum(f, F) ==
  IF sha_files(f, F) = {} THEN "ok"
  ELSE LET lines == non_blank((CHOOSE g \in sha_files(f, F) : TRUE)[3]) IN
       IF Len(lines) # 1 THEN "Invalid checksum"
       ELSE IF checksum(f) # lines[1][1] THEN "Invalid checksum"
       ELSE "ok"

\* FSRequest.do_checksums: check_checksum of every input file
do_checksums(F) ==
  IF \E f \in request_infiles(F) : check_checksum(f, F) # "ok"
  THEN "Invalid checksum" ELSE "ok"

\* ------------------------------------------------------------------- Init
NoHist == [labels |-> <<>>, prep_failed |-> FALSE, sem_timeout |-> "none",
           acq_mq |-> FALSE, spawned |-> FALSE, killed |-> FALSE,
           capture_failed |-> FALSE, start_time |-> 0, unexpected |-> FALSE]

\* no client has called submit
NoFuture == [pc |-> "none", dir |-> 0, arg_beat_timeout |-> <<>>,
             beat_timeout |-> 0, timeout |-> 0, status |-> "NOT STARTED",
             start_time |-> 0, wake |-> 0, last_beat |-> -1,
             result |-> None, exception |-> <<>>, monitored |-> FALSE,
             seen_failed |-> FALSE, cancel_raised |-> None]

\* the server before any request: both gates free, no worker, no writer
InitServer ==
  /\ fs = [d \in Dirs |-> {}]
  /\ infiles = [d \in Dirs |-> {}]
  /\ text = [d \in Dirs |-> [f \in ProtocolTexts |-> ""]]
  /\ lpc = [l \in Listeners |-> "sleep"]
  /\ todo = [l \in Listeners |-> {}]
  /\ cur = [l \in Listeners |-> 0]
  /\ created = [d \in Dirs |-> 0]
  /\ yielded = [d \in Dirs |-> 0]
  /\ skipped = [d \in Dirs |-> FALSE]
  /\ prepare_sem = num_workers
  /\ mq_sem = num_workers
  /\ pc = [d \in Dirs |-> "none"]
  /\ stop_beating_flag = [d \in Dirs |-> TRUE]
  /\ engine = [d \in Dirs |-> "none"]
  /\ elapsed = [d \in Dirs |-> 0]
  /\ after = [d \in Dirs |-> "none"]
  /\ errmsg = [d \in Dirs |-> ""]
  /\ hist = [d \in Dirs |-> NoHist]
  /\ tasks = [l \in Listeners |-> {}]
  /\ now = 0
  /\ beat = [d \in Dirs |-> -1]
  /\ bpc = [d \in Dirs |-> "none"]
  /\ bwake = [d \in Dirs |-> 0]

\* no function of mqparams or vmcall is under way
NoCall == [fn |-> "none"]
NoVm == [pc |-> "none"]
Apart == call = NoCall /\ vm = NoVm

\* an empty listen directory, serve called without maxtasks, no submit
InitRest ==
  /\ Apart
  /\ dirs = {}
  /\ maxtasks = <<>>
  /\ fut = NoFuture
  /\ InitServer

\* one server with the default configuration (task_re=None)
Init == task_re = <<>> /\ InitRest

\* servers configured with or without a task_re
InitListen == task_re \in TaskReChoices /\ InitRest

\* ------------------------------------------------------------ the clients
\* A client creates a request directory and puts its input files there
\* (with_output: the directory already holds an output/ subdirectory).
ClientMkdir(d, F, with_output) ==
  /\ d \notin dirs
  /\ dirs' = dirs \cup {d}
  /\ infiles' = [infiles EXCEPT ![d] = F]
  /\ fs' = [fs EXCEPT ![d] = IF with_output THEN {"output"} ELSE {}]
  /\ UNCHANGED <<confVars, text, listenVars, workerVars, maxtasks, now,
                 beatVars, fut>>

\* The client signals readiness: touch START
ClientStart(d) ==
  /\ d \in dirs
  /\ ~exists(d, "START")
  /\ fs' = [fs EXCEPT ![d] = @ \cup {"START"}]
  /\ skipped' = [skipped EXCEPT ![d] = FALSE]
  /\ UNCHANGED <<confVars, envVars, text, lpc, todo, cur, created, yielded,
                 tasks, workerVars>>

\* ----------------------------------------------------------------- listen
\* dirs = [dir for dir in listendir.iterdir() if dir.is_dir()]
Scan(l) ==
  /\ lpc[l] = "sleep"
  /\ todo' = [todo EXCEPT ![l] = dirs]
  /\ lpc' = [lpc EXCEPT ![l] = "iter"]
  /\ UNCHANGED <<confVars, envVars, fs, text, cur, created, yielded, skipped,
                 tasks,
                 workerVars>>

\* the next directory of the scan: listendir.iterdir() lists in one order
first(S) == CHOOSE d \in S : \A e \in S : d <= e

\* for dir in dirs: the task_re filter and the START test
Visit(l) ==
  /\ lpc[l] = "iter"
  /\ todo[l] # {}
  /\ LET d == first(todo[l]) IN
       /\ todo' = [todo EXCEPT ![l] = @ \ {d}]
       /\ IF task_re # <<>> /\ ~fullmatch(task_re, DirName(d))
          THEN UNCHANGED <<lpc, cur, skipped>>
          ELSE IF start_exists(d)
               THEN /\ lpc' = [lpc EXCEPT ![l] = "open"]
                    /\ cur' = [cur EXCEPT ![l] = d]
                    /\ UNCHANGED skipped
               ELSE /\ skipped' = [skipped EXCEPT ![d] = TRUE]
                    /\ UNCHANGED <<lpc, cur>>
  /\ UNCHANGED <<confVars, envVars, fs, text, created, yielded, tasks,
                 workerVars>>

\* time.sleep(interval) after a full scan
Sleep(l) ==
  /\ lpc[l] = "iter"
  /\ todo[l] = {}
  /\ lpc' = [lpc EXCEPT ![l] = "sleep"]
  /\ UNCHANGED <<confVars, envVars, fs, text, todo, cur, created, yielded,
                 skipped, tasks,
                 workerVars>>

\* with (dir / "STARTED").open('x'): pass / except FileExistsError: continue
Claim(l) ==
  /\ lpc[l] = "open"
  /\ IF open_x_fails(cur[l])
     THEN /\ lpc' = [lpc EXCEPT ![l] = "iter"]
          /\ UNCHANGED <<fs, created>>
     ELSE /\ fs' = [fs EXCEPT ![cur[l]] = @ \cup {"STARTED"}]
          /\ created' = [created EXCEPT ![cur[l]] = @ + 1]
          /\ lpc' = [lpc EXCEPT ![l] = "new"]
  /\ UNCHANGED <<confVars, envVars, text, todo, cur, yielded, skipped, tasks,
                 workerVars>>

\* task = FSRequest(dir): the log file, then output/; an exception drops the
\* candidate
Instantiate(l) ==
  /\ lpc[l] = "new"
  /\ IF mkdir_output_fails(cur[l])
     THEN /\ fs' = [fs EXCEPT ![cur[l]] = @ \cup {"logfile.txt"}]
          /\ lpc' = [lpc EXCEPT ![l] = "iter"]
     ELSE /\ fs' = [fs EXCEPT ![cur[l]] = @ \cup {"logfile.txt", "output"}]
          /\ lpc' = [lpc EXCEPT ![l] = "yield"]
  /\ UNCHANGED <<confVars, envVars, text, todo, cur, created, yielded, skipped,
                 tasks,
                 workerVars>>

\* if maxtasks is not None and i + 1 >= maxtasks: break
\* (n is i + 1, the number of workers started so far)
maxtasks_reached(n) == maxtasks # <<>> /\ n >= maxtasks[1]

\* yield task; MQDaemon.serve creates the MQJob thread, appends it to tasks
\* and starts it, then tests maxtasks
Serve(l) ==
  /\ lpc[l] = "yield"
  /\ yielded' = [yielded EXCEPT ![cur[l]] = @ + 1]
  /\ pc' = [pc EXCEPT ![cur[l]] = "run"]
  /\ tasks' = [tasks EXCEPT ![l] = @ \cup {cur[l]}]
  /\ lpc' = [lpc EXCEPT ![l] =
               IF maxtasks_reached(Cardinality(tasks[l]) + 1)
               THEN "join" ELSE "iter"]
  /\ UNCHANGED <<confVars, envVars, fs, text, todo, cur, created, skipped,
                 prepare_sem, mq_sem, stop_beating_flag, engine, elapsed, after,
                 errmsg, hist>>

\* for task in tasks: task.join(), after which serve returns
ServeJoin(l) ==
  /\ lpc[l] = "join"
  /\ \A d \in tasks[l] : pc[d] = "done"
  /\ lpc' = [lpc EXCEPT ![l] = "returned"]
  /\ UNCHANGED <<confVars, envVars, fs, text, todo, cur, created, yielded,
                 skipped, tasks, workerVars>>

\* ------------------------------------------- listen of the older src/fscall.py
\* re.match(task_re, name) for a literal pattern: the pattern is a prefix
match(re, name) ==
  /\ Len(re) <= Len(name)
  /\ SubSeq(name, 1, Len(re)) = re

\* src/fscall.py, for dir in dirs: the filter is re.match, then the START test
VisitLegacy(l) ==
  /\ lpc[l] = "iter"
  /\ todo[l] # {}
  /\ LET d == first(todo[l]) IN
       /\ todo' = [todo EXCEPT ![l] = @ \ {d}]
       /\ IF task_re # <<>> /\ ~match(task_re, DirName(d))
          THEN UNCHANGED <<lpc, cur, skipped>>
          ELSE IF start_exists(d)
               THEN /\ lpc' = [lpc EXCEPT ![l] = "open"]
                    /\ cur' = [cur EXCEPT ![l] = d]
                    /\ UNCHANGED skipped
               ELSE /\ skipped' = [skipped EXCEPT ![d] = TRUE]
                    /\ UNCHANGED <<lpc, cur>>
  /\ UNCHANGED <<confVars, envVars, fs, text, created, yielded, tasks,
                 workerVars>>

\* src/fscall.py, task = FSRequest(dir) / except ImportError: the ValueError
\* of an existing output/ is not caught and ends the generator
InstantiateLegacy(l) ==
  /\ lpc[l] = "new"
  /\ IF mkdir_output_fails(cur[l])
     THEN /\ fs' = [fs EXCEPT ![cur[l]] = @ \cup {"logfile.txt"}]
          /\ lpc' = [lpc EXCEPT ![l] = "raised"]
     ELSE /\ fs' = [fs EXCEPT ![cur[l]] = @ \cup {"logfile.txt", "output"}]
          /\ lpc' = [lpc EXCEPT ![l] = "yield"]
  /\ UNCHANGED <<confVars, envVars, text, todo, cur, created, yielded, skipped,
                 tasks,
                 workerVars>>

\* ------------------------------------------------------------------ MQJob
notWorker == <<confVars, envVars, listenVars>>

Goto(d, loc) == pc' = [pc EXCEPT ![d] = loc]

\* the result of acquire() not tested: the worker goes on without a permit
acquire_unchecked(sem) == TRUE

\* threading.Semaphore.acquire(timeout=...) returns True: a permit was free
acquire(sem) == sem > 0

\* the release in the finally block left out: the permit is kept
release_dropped(sem) == sem

\* finally: <sem>.release(): the free permits afterwards
release(sem) == sem + 1

\* MQJob.__init__: self.mq_timeout = mq_timeout; self.mq_timeout = float('inf')
MQJob_mq_timeout(mq_timeout) == Inf

\* self.mq_timeout is not None and time.time() - start > self.mq_timeout,
\* with time counted in polling periods
deadline_passed(t, mq_timeout) == t > mq_timeout

TimeoutMsg == "Timeout. No resources available."
PrepareMsg(e) == "Error while preparing files: " \o e
RunMsg == "Error running MaxQuant."

\* the return after task.error(...) in the two except blocks and the two
\* timeout branches of _execute_task: the worker leaves _execute_task
after_timeout_no_return(gate) ==
  IF gate = "prepare" THEN "status_prep" ELSE "status_run"
after_timeout(gate) == "exit_beat"
after_prepare_error_no_return == "wait_mq"
after_prepare_error == "exit_beat"
after_run_error == "exit_beat"

\* self.task.error(message) is entered and does its first step, _stop_beat;
\* cont is where the caller continues once error() has returned
call_error(d, message, cont) ==
  /\ errmsg' = [errmsg EXCEPT ![d] = message]
  /\ after' = [after EXCEPT ![d] = cont]
  /\ stop_beating_flag' = [stop_beating_flag EXCEPT ![d] = TRUE]
  /\ Goto(d, "err_file")

\* run: with self.task.beat(): _start_beat clears the flag, starts the writer
BeatEnter(d) ==
  /\ pc[d] = "run"
  /\ stop_beating_flag' = [stop_beating_flag EXCEPT ![d] = FALSE]
  /\ bpc' = [bpc EXCEPT ![d] = "test"]
  /\ hist' = [hist EXCEPT ![d].start_time = now]
  /\ Goto(d, "wait_prep")
  /\ UNCHANGED <<confVars, dirs, infiles, maxtasks, now, beat, bwake, fut,
                 listenVars, fs, text, prepare_sem, mq_sem, engine, elapsed,
                 after, errmsg>>

\* self.task.status('WAITING') before the prepare gate
StatusWaitingPrepare(d) ==
  /\ pc[d] = "wait_prep"
  /\ status(d, "WAITING")
  /\ Goto(d, "acq_prep")
  /\ UNCHANGED <<notWorker, prepare_sem, mq_sem, stop_beating_flag, engine,
                 elapsed, after, errmsg>>

\* self.prepare_sem.acquire(timeout=self.sem_timeout) succeeds
AcquirePrepare(d) ==
  /\ pc[d] = "acq_prep"
  /\ acquire(prepare_sem)
  /\ prepare_sem' = prepare_sem - 1
  /\ Goto(d, "status_prep")
  /\ UNCHANGED <<notWorker, fs, text, mq_sem, stop_beating_flag, engine,
                 elapsed, after, errmsg, hist>>

\* the acquire times out: no permit was free for sem_timeout seconds
TimeoutPrepare(d) ==
  /\ pc[d] = "acq_prep"
  /\ ~acquire(prepare_sem)
  /\ call_error(d, TimeoutMsg, after_timeout("prepare"))
  /\ hist' = [hist EXCEPT ![d].sem_timeout = "prepare"]
  /\ UNCHANGED <<notWorker, fs, text, prepare_sem, mq_sem, engine,
                 elapsed>>

\* self.task.status('PREPARING FILES')
StatusPreparing(d) ==
  /\ pc[d] = "status_prep"
  /\ status(d, "PREPARING FILES")
  /\ Goto(d, "process")
  /\ UNCHANGED <<notWorker, prepare_sem, mq_sem, stop_beating_flag, engine,
                 elapsed, after, errmsg>>

\* the exceptions of the try block of the preparation: self.task.do_checksums()
\* is commented out, so only those of _process_params are left: bucket_files,
\* then parse_param_file (which raises on an invalid or unreadable parameter
\* file)
prepare_errors(F) ==
  IF bucket_files(request_infiles(F)) = "ok"
  THEN {"Invalid parameter file"}
  ELSE {bucket_files(request_infiles(F))}

\* #self.task.do_checksums(); params, datafiles = self._process_params()
ProcessParams(d) ==
  /\ pc[d] = "process"
  /\ \/ /\ bucket_files(request_infiles(infiles[d])) = "ok"
        /\ Goto(d, "rel_prep_ok")
        /\ UNCHANGED <<after, errmsg, hist, stop_beating_flag>>
     \/ /\ \E e \in prepare_errors(infiles[d]) :
             call_error(d, PrepareMsg(e), "rel_prep_err")
        /\ hist' = [hist EXCEPT ![d].prep_failed = TRUE]
  /\ UNCHANGED <<notWorker, fs, text, prepare_sem, mq_sem, engine, elapsed>>

\* finally: self.prepare_sem.release()
ReleasePrepare(d) ==
  /\ pc[d] \in {"rel_prep_ok", "rel_prep_err"}
  /\ prepare_sem' = release(prepare_sem)
  /\ Goto(d, IF pc[d] = "rel_prep_ok" THEN "wait_mq" ELSE after_prepare_error)
  /\ UNCHANGED <<notWorker, fs, text, mq_sem, stop_beating_flag, engine,
                 elapsed, after, errmsg, hist>>

\* self.task.status('WAITING') before the execute gate
StatusWaitingExecute(d) ==
  /\ pc[d] = "wait_mq"
  /\ status(d, "WAITING")
  /\ Goto(d, "acq_mq")
  /\ UNCHANGED <<notWorker, prepare_sem, mq_sem, stop_beating_flag, engine,
                 elapsed, after, errmsg>>

\* self.mq_sem.acquire(timeout=self.sem_timeout) succeeds
AcquireExecute(d) ==
  /\ pc[d] = "acq_mq"
  /\ acquire(mq_sem)
  /\ mq_sem' = mq_sem - 1
  /\ hist' = [hist EXCEPT ![d].acq_mq = TRUE]
  /\ Goto(d, "status_run")
  /\ UNCHANGED <<notWorker, fs, text, prepare_sem, stop_beating_flag, engine,
                 elapsed, after, errmsg>>

\* the acquire times out
TimeoutExecute(d) ==
  /\ pc[d] = "acq_mq"
  /\ ~acquire(mq_sem)
  /\ call_error(d, TimeoutMsg, after_timeout("execute"))
  /\ hist' = [hist EXCEPT ![d].sem_timeout = "execute"]
  /\ UNCHANGED <<notWorker, fs, text, prepare_sem, mq_sem, engine,
                 elapsed>>

\* self.task.status('RUNNING')
StatusRunning(d) ==
  /\ pc[d] = "status_run"
  /\ status(d, "RUNNING")
  /\ Goto(d, "spawn")
  /\ UNCHANGED <<notWorker, prepare_sem, mq_sem, stop_beating_flag, engine,
                 elapsed, after, errmsg>>

\* _run_maxquant up to the Popen of mqparams.mqrun: the temporary directory,
\* data_to_xml and the Popen may raise; otherwise the engine child is alive
Spawn(d) ==
  /\ pc[d] = "spawn"
  /\ \/ /\ engine' = [engine EXCEPT ![d] = "alive"]
        /\ hist' = [hist EXCEPT ![d].spawned = TRUE]
        /\ Goto(d, "poll")
        /\ UNCHANGED <<after, errmsg, stop_beating_flag>>
     \/ /\ call_error(d, RunMsg, "rel_mq_err")
        /\ UNCHANGED <<engine, hist>>
  /\ UNCHANGED <<notWorker, fs, text, prepare_sem, mq_sem, elapsed>>

\* the engine child process exits with return code 0 or non-zero
EngineExit(d) ==
  /\ engine[d] = "alive"
  /\ \E rc \in {"exit0", "exit1"} : engine' = [engine EXCEPT ![d] = rc]
  /\ elapsed' = [elapsed EXCEPT ![d] = 0]
  /\ UNCHANGED <<notWorker, fs, text, prepare_sem, mq_sem, pc,
                 stop_beating_flag, after, errmsg, hist>>

\* one round of the polling loop: mqcall.communicate(timeout=5)
Poll(d) ==
  /\ pc[d] = "poll"
  /\ \/ \* the child has exited: the return code decides
        /\ engine[d] \in {"exit0", "exit1"}
        /\ IF engine[d] = "exit0"
           THEN Goto(d, "rel_mq_ok") /\ UNCHANGED <<after, errmsg, stop_beating_flag>>
           ELSE call_error(d, RunMsg, "rel_mq_err")
        /\ UNCHANGED <<engine, elapsed, hist>>
     \/ \* the child has exited with 0, decoding its captured output raises
        /\ engine[d] = "exit0"
        /\ call_error(d, RunMsg, "rel_mq_err")
        /\ hist' = [hist EXCEPT ![d].capture_failed = TRUE]
        /\ UNCHANGED <<engine, elapsed>>
     \/ \* subprocess.TimeoutExpired: five more seconds have passed
        /\ engine[d] = "alive"
        /\ elapsed[d] < MaxPolls
        /\ IF deadline_passed(elapsed[d] + 1, MQJob_mq_timeout(CfgMqTimeout))
           THEN /\ engine' = [engine EXCEPT ![d] = "killed"]
                /\ hist' = [hist EXCEPT ![d].killed = TRUE]
                /\ elapsed' = [elapsed EXCEPT ![d] = 0]
                /\ call_error(d, RunMsg, "rel_mq_err")
           ELSE /\ elapsed' = [elapsed EXCEPT ![d] = @ + 1]
                /\ UNCHANGED <<engine, hist, pc, after, errmsg, stop_beating_flag>>
  /\ UNCHANGED <<notWorker, fs, text, prepare_sem, mq_sem>>

\* finally: self.mq_sem.release()
ReleaseExecute(d) ==
  /\ pc[d] \in {"rel_mq_ok", "rel_mq_err"}
  /\ mq_sem' = release(mq_sem)
  /\ Goto(d, IF pc[d] = "rel_mq_ok" THEN "exit_beat" ELSE after_run_error)
  /\ UNCHANGED <<notWorker, fs, text, prepare_sem, stop_beating_flag, engine,
                 elapsed, after, errmsg, hist>>

\* FSRequest.error: self._write_file("FAILED", message)
ErrorWriteFailed(d) ==
  /\ pc[d] = "err_file"
  /\ write_file(d, "FAILED", errmsg[d])
  /\ Goto(d, "err_status")
  /\ UNCHANGED <<notWorker, prepare_sem, mq_sem, stop_beating_flag, engine,
                 elapsed, after, errmsg, hist>>

\* FSRequest.error: self.status('FAILED'), then back in the caller
ErrorStatus(d) ==
  /\ pc[d] = "err_status"
  /\ status(d, "FAILED")
  /\ Goto(d, after[d])
  /\ UNCHANGED <<notWorker, prepare_sem, mq_sem, stop_beating_flag, engine,
                 elapsed, after, errmsg>>

\* leaving "with self.task.beat()": _stop_beat, and run returns
BeatExit(d) ==
  /\ pc[d] = "exit_beat"
  /\ stop_beating_flag' = [stop_beating_flag EXCEPT ![d] = TRUE]
  /\ Goto(d, "done")
  /\ UNCHANGED <<notWorker, fs, text, prepare_sem, mq_sem, engine, elapsed,
                 after, errmsg, hist>>

\* An exception that no handler of _execute_task covers is raised by a
\* statement outside its two try blocks (task.status('WAITING'), whose
\* _write_file catches only IOError and OSError).  It leaves "with
\* self.task.beat()" through the generator of beat, which has no try/finally
\* around its yield, so _stop_beat is not run; the except Exception of run
\* logs "Unknown Error." and run returns.
Unexpected(d) ==
  /\ pc[d] \in {"wait_prep", "wait_mq"}
  /\ hist' = [hist EXCEPT ![d].unexpected = TRUE]
  /\ Goto(d, "done")
  /\ UNCHANGED <<notWorker, fs, text, prepare_sem, mq_sem, stop_beating_flag,
                 engine, elapsed, after, errmsg>>

\* ------------------------------------------------- the heartbeat writer
\* the thread started by _start_beat: while not self._stop_beating_flag
BeatTest(d) ==
  /\ bpc[d] = "test"
  /\ bpc' = [bpc EXCEPT ![d] = IF stop_beating_flag[d] THEN "stopped" ELSE "write"]
  /\ UNCHANGED <<confVars, dirs, infiles, maxtasks, now, beat, bwake, fut,
                 listenVars, fs, text, workerVars>>

\* self._single_beat(): append datetime.now().isoformat() to BEAT, then
\* time.sleep(interval)
SingleBeat(d) ==
  /\ bpc[d] = "write"
  /\ fs' = [fs EXCEPT ![d] = @ \cup {"BEAT"}]
  /\ beat' = [beat EXCEPT ![d] = now]
  /\ bwake' = [bwake EXCEPT ![d] = now + BeatInterval]
  /\ bpc' = [bpc EXCEPT ![d] = "sleep"]
  /\ UNCHANGED <<confVars, dirs, infiles, maxtasks, now, fut, listenVars, text,
                 workerVars>>

\* the sleep is over
BeatWake(d) ==
  /\ bpc[d] = "sleep"
  /\ now >= bwake[d]
  /\ bpc' = [bpc EXCEPT ![d] = "test"]
  /\ UNCHANGED <<confVars, dirs, infiles, maxtasks, now, beat, bwake, fut,
                 listenVars, fs, text, workerVars>>

\* ------------------------------------------------------ submit / FSFuture
\* the input files of the submitted request, in the order they are copied
OrigInfiles == <<<<"input1", ".raw">>, <<"params", ".yaml">>>>

NoException == <<>>
ServerNotResponding == <<"TimeoutError", "Server not responding">>
LostHeartbeat == <<"TimeoutError", "Lost heartbeat. Server down?">>
CopyError == <<"OSError", "copy failed">>

\* submit(serverdir, infiles, beat_timeout): FSFuture(serverdir, infiles) is
\* built without it, so FSFuture.__init__ receives beat_timeout=None
submit_beat_timeout(beat_timeout) == <<>>

\* self._beat_timeout = beat_timeout if beat_timeout is not None else 30
FSFuture_beat_timeout(beat_timeout) ==
  IF beat_timeout # <<>> THEN beat_timeout[1] ELSE DefaultBeatTimeout

\* self._timeout = timeout if timeout is not None else 30
FSFuture_timeout(timeout) ==
  IF timeout # <<>> THEN timeout[1] ELSE DefaultTimeout

\* the future after submit(serverdir, OrigInfiles, beat_timeout) returned:
\* the work directory d exists and the worker thread is at the top of _run
Submitted(d, beat_timeout) ==
  [NoFuture EXCEPT !.pc = "copy", !.dir = d,
                   !.arg_beat_timeout = beat_timeout,
                   !.beat_timeout = FSFuture_beat_timeout(submit_beat_timeout(beat_timeout)),
                   !.timeout = FSFuture_timeout(<<>>)]

\* self._result, self._exception are set and self._finished.set()
finish(result, exception) ==
  fut' = [fut EXCEPT !.pc = "finished", !.result = result,
                     !.exception = exception,
                     !.seen_failed = exists(fut.dir, "FAILED")]

futOnly == <<confVars, dirs, maxtasks, now, beatVars, listenVars, workerVars>>

\* _copy_infiles: shutil.copy of the next file begins; the file is in the
\* work directory, not yet complete
FutCopyBegin ==
  /\ fut.pc = "copy"
  /\ fut' = [fut EXCEPT !.pc = "copying", !.status = "COPY FILES"]
  /\ infiles' = [infiles EXCEPT ![fut.dir] = @ \cup {<<"partial">>}]
  /\ UNCHANGED <<futOnly, fs, text>>

\* a copy raises (the source cannot be read, the disk is full): _run stores
\* the exception and returns
after_copy_error_no_return == "touch"
after_copy_error == "finished"

\* shutil.copy returns or raises
FutCopyEnd ==
  /\ fut.pc = "copying"
  /\ \/ /\ infiles' = [infiles EXCEPT ![fut.dir] =
                         (@ \ {<<"partial">>}) \cup {OrigInfiles[Cardinality(@)]}]
        /\ fut' = [fut EXCEPT !.pc = IF Cardinality(infiles[fut.dir]) = Len(OrigInfiles)
                                     THEN "touch" ELSE "copy"]
     \/ /\ fut' = [fut EXCEPT !.pc = after_copy_error, !.exception = CopyError,
                              !.seen_failed = exists(fut.dir, "FAILED")]
        /\ UNCHANGED infiles
  /\ UNCHANGED <<futOnly, fs, text>>

\* while time.time() - start_time < self._timeout
wait_more(t) == t - fut.start_time < fut.timeout

\* _start_computation: self._touch('START'), start_time, the first loop test
FutTouchStart ==
  /\ fut.pc = "touch"
  /\ fs' = [fs EXCEPT ![fut.dir] = @ \cup {"START"}]
  /\ fut' = [fut EXCEPT !.pc = "wait", !.start_time = now, !.wake = now + 1]
  /\ UNCHANGED <<confVars, dirs, infiles, maxtasks, now, beatVars, listenVars,
                 workerVars, text>>

\* the wait for the server gives up without testing for the files
wait_unchecked(d) == TRUE

\* self._exists('STATUS', 'BEAT', 'STARTED')
server_answered(d) ==
  exists(d, "STATUS") /\ exists(d, "BEAT") /\ exists(d, "STARTED")

\* after time.sleep(1): the files are there (read STATUS and the beat, go on
\* to _listen_complete, whose _next_beat sleeps beat_timeout), or the loop
\* sleeps again, or its else branch raises TimeoutError
FutWaitCheck ==
  /\ fut.pc = "wait"
  /\ now >= fut.wake
  /\ IF server_answered(fut.dir)
     THEN fut' = [fut EXCEPT !.pc = "mon", !.monitored = TRUE,
                             !.status = text[fut.dir]["STATUS"],
                             !.last_beat = beat[fut.dir],
                             !.wake = now + fut.beat_timeout]
     ELSE IF wait_more(now)
          THEN fut' = [fut EXCEPT !.wake = now + 1]
          ELSE finish(None, ServerNotResponding)
  /\ UNCHANGED <<futOnly, infiles, fs, text>>

\* (beat - self._last_beat).total_seconds() > 0
beat_advanced(b, last_beat) == b - last_beat > 0

\* _next_beat after time.sleep(self._beat_timeout)
FutNextBeat ==
  /\ fut.pc = "mon"
  /\ now >= fut.wake
  /\ IF beat_advanced(beat[fut.dir], fut.last_beat)
     THEN fut' = [fut EXCEPT !.pc = "mon_status", !.last_beat = beat[fut.dir]]
     ELSE finish(None, LostHeartbeat)
  /\ UNCHANGED <<futOnly, infiles, fs, text>>

\* self._status = self._read('STATUS')
FutReadStatus ==
  /\ fut.pc = "mon_status"
  /\ fut' = [fut EXCEPT !.pc = "mon_failed", !.status = text[fut.dir]["STATUS"]]
  /\ UNCHANGED <<futOnly, infiles, fs, text>>

\* if self._exists('FAILED'): return None, Exception(self._read('FAILED'))
FutCheckFailed ==
  /\ fut.pc = "mon_failed"
  /\ IF exists(fut.dir, "FAILED")
     THEN finish(None, <<"Exception", text[fut.dir]["FAILED"]>>)
     ELSE fut' = [fut EXCEPT !.pc = "mon_success"]
  /\ UNCHANGED <<futOnly, infiles, fs, text>>

\* if self._exists('SUCCESS'): return <workdir>/output, None; else the next
\* round of the loop
FutCheckSuccess ==
  /\ fut.pc = "mon_success"
  /\ IF exists(fut.dir, "SUCCESS")
     THEN finish("output", NoException)
     ELSE fut' = [fut EXCEPT !.pc = "mon", !.wake = now + fut.beat_timeout]
  /\ UNCHANGED <<futOnly, infiles, fs, text>>

\* cancelled() answers True once the future is finished
cancelled_when_finished(f) == f.pc = "finished"

\* FSFuture.cancelled: return False
cancelled(f) == FALSE

\* FSFuture.cancel: raise NotImplementedError()
FutCancel ==
  /\ fut.pc # "none"
  /\ fut.cancel_raised = None
  /\ fut' = [fut EXCEPT !.cancel_raised = "NotImplementedError"]
  /\ UNCHANGED <<futOnly, infiles, fs, text>>

\* ------------------------------------------------------------------- time
\* a thread is at a step that takes no time: it acts before the clock does
FutureBusy ==
  \/ fut.pc \in {"copy", "copying", "touch", "mon_status", "mon_failed", "mon_success"}
  \/ fut.pc \in {"wait", "mon"} /\ now >= fut.wake
ListenBusy ==
  \E l \in Listeners :
    \/ lpc[l] \in {"iter", "open", "new", "yield"}
    \/ lpc[l] = "join" /\ \A d \in tasks[l] : pc[d] = "done"
WorkerBusy(d) ==
  \/ pc[d] \in {"run", "wait_prep", "status_prep", "process", "rel_prep_ok",
                "rel_prep_err", "wait_mq", "status_run", "spawn", "rel_mq_ok",
                "rel_mq_err", "err_file", "err_status", "exit_beat"}
  \/ pc[d] = "acq_prep" /\ acquire(prepare_sem)
  \/ pc[d] = "acq_mq" /\ acquire(mq_sem)
  \/ pc[d] = "poll" /\ engine[d] # "alive"
WriterBusy(d) ==
  \/ bpc[d] \in {"test", "write"}
  \/ bpc[d] = "sleep" /\ now >= bwake[d]

\* one second passes while every thread sleeps, waits or runs the engine
Tick ==
  /\ now < MaxTime
  /\ ~FutureBusy
  /\ ~ListenBusy
  /\ \A d \in Dirs : ~WorkerBusy(d) /\ ~WriterBusy(d)
  /\ now' = now + 1
  /\ UNCHANGED <<confVars, dirs, infiles, maxtasks, beatVars, fut, listenVars,
                 fs, text, workerVars>>

\* ------------------------------------------------------ the specifications
\* clients of the scheduler: requests with good and bad sets of input files
Client ==
  \/ \E d \in Dirs, F \in FileSets : ClientMkdir(d, F, FALSE)
  \/ \E d \in Dirs : ClientStart(d)

\* clients of discovery: the request directory StaleDir may already hold an
\* output/ when it is submitted
ClientListen ==
  \/ \E d \in Dirs, o \in BOOLEAN :
       (o => d = StaleDir) /\ ClientMkdir(d, GoodFiles, o)
  \/ \E d \in Dirs : ClientStart(d)

Listen(l) ==
  \/ Scan(l)
  \/ Visit(l)
  \/ Sleep(l)
  \/ Claim(l)
  \/ Instantiate(l)
  \/ Serve(l)

Worker(d) ==
  \/ BeatEnter(d)
  \/ StatusWaitingPrepare(d)
  \/ AcquirePrepare(d)
  \/ TimeoutPrepare(d)
  \/ StatusPreparing(d)
  \/ ProcessParams(d)
  \/ ReleasePrepare(d)
  \/ StatusWaitingExecute(d)
  \/ AcquireExecute(d)
  \/ TimeoutExecute(d)
  \/ StatusRunning(d)
  \/ Spawn(d)
  \/ EngineExit(d)
  \/ Poll(d)
  \/ ReleaseExecute(d)
  \/ ErrorWriteFailed(d)
  \/ ErrorStatus(d)
  \/ BeatExit(d)

\* one server process
Next ==
  \/ Client
  \/ Listen(1)
  \/ \E d \in Dirs : Worker(d)

Spec == Init /\ [][Next]_vars

\* several server processes scanning the same listen directory
NextListen ==
  \/ ClientListen
  \/ \E l \in Listeners : Listen(l)

SpecListen == InitListen /\ [][NextListen]_vars

\* the server of the older src/mqdaemon.py: its main passes --task-re to the
\* listen of src/fscall.py
ListenLegacy(l) ==
  \/ Scan(l)
  \/ VisitLegacy(l)
  \/ Sleep(l)
  \/ Claim(l)
  \/ InstantiateLegacy(l)
  \/ Serve(l)

NextLegacy ==
  \/ ClientListen
  \/ \E l \in Listeners : ListenLegacy(l)

SpecLegacy == InitListen /\ [][NextLegacy]_vars

\* a client that called submit, and a server started with --maxtasks 1 that
\* answers it
InitSubmit ==
  /\ Apart
  /\ task_re = <<>>
  /\ maxtasks = <<1>>
  /\ dirs = {1}
  /\ fut = Submitted(1, <<ArgBeatTimeout>>)
  /\ InitServer

Future ==
  \/ FutCopyBegin
  \/ FutCopyEnd
  \/ FutTouchStart
  \/ FutWaitCheck
  \/ FutNextBeat
  \/ FutReadStatus
  \/ FutCheckFailed
  \/ FutCheckSuccess
  \/ FutCancel

\* the worker of the only request: no gate is ever taken by another worker
WorkerAlone(d) ==
  \/ BeatEnter(d)
  \/ StatusWaitingPrepare(d)
  \/ AcquirePrepare(d)
  \/ StatusPreparing(d)
  \/ ProcessParams(d)
  \/ ReleasePrepare(d)
  \/ StatusWaitingExecute(d)
  \/ AcquireExecute(d)
  \/ StatusRunning(d)
  \/ Spawn(d)
  \/ EngineExit(d)
  \/ Poll(d)
  \/ ReleaseExecute(d)
  \/ ErrorWriteFailed(d)
  \/ ErrorStatus(d)
  \/ BeatExit(d)

Writer(d) ==
  \/ BeatTest(d)
  \/ SingleBeat(d)
  \/ BeatWake(d)

NextSubmit ==
  \/ Future
  \/ Listen(1)
  \/ ServeJoin(1)
  \/ WorkerAlone(fut.dir)
  \/ Writer(fut.dir)
  \/ Tick

SpecSubmit == InitSubmit /\ [][NextSubmit]_vars

\* one server whose serve is called with a maxtasks of 0..MaxTasks
InitServe ==
  /\ Apart
  /\ task_re = <<>>
  /\ maxtasks \in {<<n>> : n \in 0..MaxTasks}
  /\ dirs = {}
  /\ fut = NoFuture
  /\ InitServer

NextServe ==
  \/ Client
  \/ Listen(1)
  \/ ServeJoin(1)
  \/ \E d \in Dirs : Worker(d)

SpecServe == InitServe /\ [][NextServe]_vars

\* one request, with one of the sets of input files, for a server started
\* with --maxtasks 1
InitPrepare ==
  /\ Apart
  /\ task_re = <<>>
  /\ maxtasks = <<1>>
  /\ dirs = {}
  /\ fut = NoFuture
  /\ InitServer

ClientPrepare ==
  \/ \E F \in PrepareFileSets : ClientMkdir(1, F, FALSE)
  \/ ClientStart(1)

NextPrepare ==
  \/ ClientPrepare
  \/ Listen(1)
  \/ ServeJoin(1)
  \/ WorkerAlone(1)

SpecPrepare == InitPrepare /\ [][NextPrepare]_vars

\* one server whose workers may meet an exception outside the try blocks of
\* _execute_task
NextRun ==
  \/ Client
  \/ Listen(1)
  \/ \E d \in Dirs : Worker(d)
  \/ \E d \in Dirs : Unexpected(d)

SpecRun == Init /\ [][NextRun]_vars

\* -------------------------------------------------------- mqparams: values
\* A value of a parameter document: a string, a list of strings, a mapping
\* (a function from its keys to values) or None.
StrV(str) == [kind |-> "str", s |-> str, l |-> <<>>, m |-> <<>>]
ListV(list) == [kind |-> "list", s |-> "", l |-> list, m |-> <<>>]
MapV(map) == [kind |-> "map", s |-> "", l |-> <<>>, m |-> map]
NoneV == [kind |-> "none", s |-> "", l |-> <<>>, m |-> <<>>]

\* the mappings with keys in K and values in Vs
Mappings(K, Vs) == UNION {[D -> Vs] : D \in SUBSET K}

MergeKeys == {"a", "b"}
DefaultLeaves == {StrV("x"), ListV(<<"p">>)}
UserLeaves == {StrV("y"), ListV(<<"q">>)}
\* nested mappings of defaults and of user values, two levels deep
DefaultMaps ==
  Mappings(MergeKeys, DefaultLeaves \cup
                      {MapV(m) : m \in Mappings(MergeKeys, DefaultLeaves)})
UserMaps ==
  Mappings(MergeKeys, UserLeaves \cup
                      {MapV(m) : m \in Mappings(MergeKeys, UserLeaves)})

\* ------------------------------------------------------------- rec_update
\* rec_update(d, u) of mqrun/mqparams.py (the one of src/mqparams.py has the
\* same body): raised is the AssertionError of "assert isinstance(d,
\* collections.Mapping)", d the dictionary d after the call, which updates it
\* in place, and ret the returned value.  The function has no return
\* statement, so ret is None, and "r = rec_update(d.get(k, {}), v); d[k] = r"
\* stores None under every key whose user value is a mapping.
RECURSIVE rec_update(_, _)
rec_update(d, u) ==
  LET get(k) == IF k \in DOMAIN d THEN d[k] ELSE MapV(<<>>)
      r(k) == rec_update(get(k).m, u[k].m)
      asserts(k) == u[k].kind = "map" /\ (get(k).kind # "map" \/ r(k).raised)
  IN IF \E k \in DOMAIN u : asserts(k)
     THEN [raised |-> TRUE, d |-> d, ret |-> NoneV]
     ELSE [raised |-> FALSE,
           d |-> [k \in DOMAIN d \cup DOMAIN u |->
                    IF k \notin DOMAIN u THEN d[k]
                    ELSE IF u[k].kind = "map" THEN r(k).ret
                    ELSE u[k]],
           ret |-> NoneV]

apartOnly == <<task_re, envVars, fs, text, listenVars, workerVars>>

\* MQParamSet.update_data: self._data is the copy of the defaults, then
\* rec_update(self._data, user_data)
UpdateData ==
  /\ call.fn = "update_data" /\ ~call.done
  /\ call' = [call EXCEPT !.done = TRUE,
                          !.raised = rec_update(call.defaults, call.user).raised,
                          !.data = rec_update(call.defaults, call.user).d]
  /\ UNCHANGED <<apartOnly, vm>>

InitMerge ==
  /\ task_re = <<>> /\ dirs = {} /\ maxtasks = <<>> /\ fut = NoFuture
  /\ InitServer
  /\ vm = NoVm
  /\ \E d \in DefaultMaps, u \in UserMaps :
       call = [fn |-> "update_data", defaults |-> d, user |-> u, done |-> FALSE,
               raised |-> FALSE, data |-> <<>>]

SpecMerge == InitMerge /\ [][UpdateData]_vars

\* ----------------------------------------------------------------- vmcall
IsPrefix(s, t) == Len(s) <= Len(t) /\ SubSeq(t, 1, Len(s)) = s
AllButLast(s) == SubSeq(s, 1, Len(s) - 1)

\* A directory tree is a function from the paths of its files (sequences of
\* names, relative to the root) to their contents.
DataPaths == {<<"testfile">>, <<"sub", "f">>, <<"sub", "g">>}
Contents == {"hi", "ho"}
Trees == Mappings(DataPaths, Contents)
\* the path argument of extract_from_image: <<>> is '/'
ImagePaths == {<<>>, <<"testfile">>, <<"sub">>, <<"sub", "f">>, <<"nofile">>}

\* path names the root, a directory or a file of the tree
in_tree(tree, path) == path = <<>> \/ \E f \in DOMAIN tree : IsPrefix(path, f)
is_dir(tree, path) ==
  path = <<>> \/ \E f \in DOMAIN tree : IsPrefix(path, f) /\ f # path

\* the files of tree below path (or the file path itself)
below(tree, path) == {f \in DOMAIN tree : IsPrefix(path, f)}

\* virt-make-fs --partition --type .. --format .. --size .. -- data_dir dest
\* run by subprocess.check_call: with valid options the image at dest holds
\* one partition with the tree of data_dir, otherwise the tool exits
\* non-zero and check_call raises
virt_make_fs(args_valid, data) ==
  IF args_valid
  THEN [ok |-> TRUE, image |-> [present |-> TRUE, valid |-> TRUE, tree |-> data]]
  ELSE [ok |-> FALSE, image |-> [present |-> FALSE, valid |-> FALSE, tree |-> <<>>]]

\* the command is tar-out whatever use_tar says
command_tar(use_tar) == "tar-out"

\* if use_tar: command = 'tar-out' else: command = 'copy-out'
command(use_tar) == IF use_tar THEN "tar-out" ELSE "copy-out"

\* guestfish --ro -a image -m /dev/sda1 <cmd> path dest run by
\* subprocess.check_call.  copy-out copies the file or directory path of the
\* image recursively into the local directory dest, under its own name (the
\* content of '/' goes into dest itself); tar-out packs the directory path
\* into the tar file dest.  A file that is no disk image with a partition, a
\* path that is not in the image, a copy-out to something that is not a
\* directory and a tar-out of a file or onto a directory make guestfish exit
\* non-zero.
guestfish(cmd, image, path, dest_kind) ==
  LET tree == image.tree
      parent == IF path = <<>> THEN <<>> ELSE AllButLast(path)
  IN
  IF cmd = "copy-out" /\ image.valid /\ dest_kind = "dir" /\ in_tree(tree, path)
  THEN [ok |-> TRUE,
        out |-> [kind |-> "dir",
                 tree |-> [q \in {SubSeq(f, Len(parent) + 1, Len(f)) :
                                    f \in below(tree, path)}
                             |-> tree[parent \o q]]]]
  ELSE IF cmd = "tar-out" /\ image.valid /\ dest_kind # "dir" /\ is_dir(tree, path)
  THEN [ok |-> TRUE,
        out |-> [kind |-> "tar",
                 tree |-> [q \in {SubSeq(f, Len(path) + 1, Len(f)) : f \in below(tree, path)}
                             |-> tree[path \o q]]]]
  ELSE [ok |-> FALSE, out |-> [kind |-> dest_kind, tree |-> <<>>]]

\* prepare_data_image(dest, data_dir, type, format, size)
PrepareDataImage ==
  /\ vm.pc = "start"
  /\ IF ~vm.data_is_dir
     THEN vm' = [vm EXCEPT !.pc = "prepare_raised", !.raised = "ValueError"]
     ELSE IF vm.dest_exists
     THEN vm' = [vm EXCEPT !.pc = "prepare_raised", !.raised = "ValueError"]
     ELSE IF ~virt_make_fs(vm.args_valid, vm.data).ok
     THEN vm' = [vm EXCEPT !.pc = "prepare_raised",
                           !.raised = "CalledProcessError"]
     ELSE vm' = [vm EXCEPT !.pc = "image",
                           !.image = virt_make_fs(vm.args_valid, vm.data).image]
  /\ UNCHANGED <<apartOnly, call>>

\* extract_from_image(image, dest, path, use_tar): dest is an empty
\* directory ("dir"), a file ("file") or does not exist ("absent")
ExtractFromImage(path, use_tar, dest_kind) ==
  /\ vm.pc \in {"image", "prepare_raised"}
  /\ LET called == [vm EXCEPT !.path = path, !.use_tar = use_tar,
                              !.out = [kind |-> dest_kind, tree |-> <<>>]]
         g == guestfish(command(use_tar), vm.image, path, dest_kind)
     IN IF ~vm.image.present
        THEN vm' = [called EXCEPT !.pc = "extract_raised", !.raised = "ValueError"]
        ELSE IF dest_kind # "dir" /\ ~use_tar
        THEN vm' = [called EXCEPT !.pc = "extract_raised", !.raised = "ValueError"]
        ELSE IF dest_kind # "absent" /\ use_tar
        THEN vm' = [called EXCEPT !.pc = "extract_raised", !.raised = "ValueError"]
        ELSE IF ~g.ok
        THEN vm' = [called EXCEPT !.pc = "extract_raised",
                                  !.raised = "CalledProcessError"]
        ELSE vm' = [called EXCEPT !.pc = "extracted", !.out = g.out]
  /\ UNCHANGED <<apartOnly, call>>

InitImage ==
  /\ task_re = <<>> /\ dirs = {} /\ maxtasks = <<>> /\ fut = NoFuture
  /\ InitServer
  /\ call = NoCall
  /\ \E data \in Trees, data_is_dir, dest_exists, args_valid \in BOOLEAN :
       vm = [pc |-> "start", data |-> data, data_is_dir |-> data_is_dir,
             dest_exists |-> dest_exists, args_valid |-> args_valid,
             image |-> [present |-> dest_exists, valid |-> FALSE, tree |-> <<>>],
             path |-> <<>>, use_tar |-> FALSE,
             out |-> [kind |-> "absent", tree |-> <<>>], raised |-> ""]

NextImage ==
  \/ PrepareDataImage
  \/ \E path \in ImagePaths, use_tar \in BOOLEAN,
        dest_kind \in {"dir", "file", "absent"} :
       ExtractFromImage(path, use_tar, dest_kind)

SpecImage == InitImage /\ [][NextImage]_vars

\* ---------------------------------------------------------- mqparams: xml
\* A str is a sequence of characters.  A value of a parameter document is
\* None, a str or a list of values; a mapping is a function from its keys.
PyNone == [kind |-> "none", text |-> <<>>, items |-> <<>>]
PyStr(t) == [kind |-> "str", text |-> t, items |-> <<>>]
PyList(l) == [kind |-> "list", text |-> <<>>, items |-> l]

RECURSIVE lstrip(_)
lstrip(t) == IF t # <<>> /\ Head(t) = " " THEN lstrip(Tail(t)) ELSE t
RECURSIVE rstrip(_)
rstrip(t) == IF t # <<>> /\ t[Len(t)] = " " THEN rstrip(AllButLast(t)) ELSE t
strip(t) == rstrip(lstrip(t))

\* sep.join(ts)
RECURSIVE join(_, _)
join(sep, ts) ==
  IF ts = <<>> THEN <<>>
  ELSE IF Len(ts) = 1 THEN ts[1]
  ELSE ts[1] \o <<sep>> \o join(sep, Tail(ts))

\* t.split(sep) for a separator of one character
RECURSIVE split(_, _)
split(t, sep) ==
  IF \E i \in 1..Len(t) : t[i] = sep
  THEN LET i == CHOOSE i \in 1..Len(t) :
                  t[i] = sep /\ \A j \in 1..(i - 1) : t[j] # sep
       IN <<SubSeq(t, 1, i - 1)>> \o split(SubSeq(t, i + 1, Len(t)), sep)
  ELSE <<t>>

\* encode of a str is the str itself; str(None) is 'None'
encode(value) ==
  IF value.kind = "str" THEN value.text ELSE <<"N", "o", "n", "e">>

\* A bool, an int and a float keep their value in items; a float is
\* num / 10^scale with the trailing zeros of num removed.
PyBool(b) == [kind |-> "bool", text |-> <<>>, items |-> <<b>>]
PyInt(n) == [kind |-> "int", text |-> <<>>, items |-> <<n>>]
RECURSIVE PyFloat(_, _)
PyFloat(num, scale) ==
  IF scale > 0 /\ num % 10 = 0 THEN PyFloat(num \div 10, scale - 1)
  ELSE [kind |-> "float", text |-> <<>>, items |-> <<num, scale>>]

\* int(t) and float(t) of a text without whitespace around it, for texts
\* written with a sign, decimal digits and a point (no exponent, no
\* underscore, no inf or nan)
Digits == <<"0", "1", "2", "3", "4", "5", "6", "7", "8", "9">>
is_digits(t) ==
  t # <<>> /\ \A i \in 1..Len(t) : \E k \in 1..Len(Digits) : Digits[k] = t[i]
RECURSIVE nat(_)
nat(t) ==
  IF t = <<>> THEN 0
  ELSE nat(AllButLast(t)) * 10
       + (CHOOSE k \in 1..Len(Digits) : Digits[k] = t[Len(t)]) - 1
unsigned(t) == IF t # <<>> /\ Head(t) \in {"+", "-"} THEN Tail(t) ELSE t
negative(t) == t # <<>> /\ Head(t) = "-"
is_int(t) == is_digits(unsigned(t))
int(t) == IF negative(t) THEN 0 - nat(unsigned(t)) ELSE nat(unsigned(t))
is_float(t) ==
  LET parts == split(unsigned(t), ".")
  IN \/ Len(parts) = 1 /\ is_digits(parts[1])
     \/ /\ Len(parts) = 2
        /\ parts[1] = <<>> \/ is_digits(parts[1])
        /\ parts[2] = <<>> \/ is_digits(parts[2])
        /\ parts[1] # <<>> \/ parts[2] # <<>>
float(t) ==
  LET parts == split(unsigned(t), ".")
      frac == IF Len(parts) = 2 THEN parts[2] ELSE <<>>
      num == nat(parts[1] \o frac)
  IN PyFloat(IF negative(t) THEN 0 - num ELSE num, Len(frac))

\* a decode whose boolean branch takes every other text for false
decode_truthy(string, dtype) ==
  IF string = PyNone THEN [raised |-> FALSE, value |-> PyNone]
  ELSE LET s == strip(string.text)
       IN IF dtype = "number"
          THEN IF is_float(s) THEN [raised |-> FALSE, value |-> float(s)]
               ELSE [raised |-> TRUE, value |-> PyNone]
          ELSE IF dtype = "string" THEN [raised |-> FALSE, value |-> PyStr(s)]
          ELSE IF dtype = "integer"
          THEN IF is_int(s) THEN [raised |-> FALSE, value |-> PyInt(int(s))]
               ELSE [raised |-> TRUE, value |-> PyNone]
          ELSE IF dtype = "boolean"
          THEN [raised |-> FALSE, value |-> PyBool(s = <<"t", "r", "u", "e">>)]
          ELSE [raised |-> TRUE, value |-> PyNone]
\* decode(string, dtype): string is the text of an element, None or a str;
\* raised stands for the ValueError of float(), int(), the boolean branch
\* and the unknown type
decode(string, dtype) ==
  IF string = PyNone THEN [raised |-> FALSE, value |-> PyNone]
  ELSE LET s == strip(string.text)
       IN IF dtype = "number"
          THEN IF is_float(s) THEN [raised |-> FALSE, value |-> float(s)]
               ELSE [raised |-> TRUE, value |-> PyNone]
          ELSE IF dtype = "string" THEN [raised |-> FALSE, value |-> PyStr(s)]
          ELSE IF dtype = "integer"
          THEN IF is_int(s) THEN [raised |-> FALSE, value |-> PyInt(int(s))]
               ELSE [raised |-> TRUE, value |-> PyNone]
          ELSE IF dtype = "boolean"
          THEN IF s = <<"t", "r", "u", "e">>
               THEN [raised |-> FALSE, value |-> PyBool(TRUE)]
               ELSE IF s = <<"f", "a", "l", "s", "e">>
               THEN [raised |-> FALSE, value |-> PyBool(FALSE)]
               ELSE [raised |-> TRUE, value |-> PyNone]
          ELSE [raised |-> TRUE, value |-> PyNone]

\* ElementTree.Element(tag): no text, no children
Element(tag) == [tag |-> tag, text |-> PyNone, kids |-> <<>>]
WithText(el, t) == [el EXCEPT !.text = PyStr(t)]
\* base.find(key): the position of the first child with this tag, 0 for None
find(base, key) ==
  IF \E i \in 1..Len(base.kids) : base.kids[i].tag = key
  THEN CHOOSE i \in 1..Len(base.kids) :
         /\ base.kids[i].tag = key
         /\ \A j \in 1..(i - 1) : base.kids[j].tag # key
  ELSE 0

\* the element _simple_write_into_xml appends for one key
data_el_nested(key, value) ==
  [Element(key) EXCEPT !.kids =
     [i \in 1..Len(value.items) |->
        LET value_list == value.items[i].items
        IN IF Len(value_list) > 0
           THEN WithText(Element("string"),
                         join(";", [j \in 1..Len(value_list) |->
                                      encode(value_list[j])]))
           ELSE Element("string")]]
data_el_strings(key, value) ==
  [Element(key) EXCEPT !.kids =
     [i \in 1..Len(value.items) |->
        WithText(Element("string"), encode(value.items[i]))]]
data_el_scalar(key, value) ==
  IF value # PyNone THEN WithText(Element(key), encode(value))
  ELSE Element(key)
data_el(key, value, type) ==
  IF type.type = "array"
  THEN IF type.items = "array" THEN data_el_nested(key, value)
       ELSE data_el_strings(key, value)
  ELSE data_el_scalar(key, value)

\* dict.items() and the keys of a schema are visited in this order
KeyOrder == <<"defaults", "lcmsRunType", "variableModifications", "labelMods",
              "unknown">>
Items(map) == SelectSeq(KeyOrder, LAMBDA k : k \in DOMAIN map)

\* _simple_write_into_xml(base, data, schema) for a schema of type object whose
\* arrays hold strings or arrays, with nothing to ignore
RECURSIVE write_keys(_, _, _, _)
write_keys(base, keys, data, schema) ==
  IF keys = <<>> THEN [raised |-> FALSE, el |-> base]
  ELSE LET key == Head(keys)
       IN IF key = "defaults" THEN write_keys(base, Tail(keys), data, schema)
          ELSE IF key \notin DOMAIN schema THEN [raised |-> TRUE, el |-> base]
          ELSE write_keys(
                 [base EXCEPT !.kids = Append(@, data_el(key, data[key], schema[key]))],
                 Tail(keys), data, schema)
simple_write_into_xml(base, data, schema) ==
  write_keys(base, Items(data), data, schema)

\* what _simple_read_from_xml stores under one key, or the exception raised
\* on an element that is None
read_key(base, key, type) ==
  LET pos == find(base, key)
      el == base.kids[pos]
  IN IF pos = 0 THEN [raised |-> TRUE, value |-> PyNone]
     ELSE IF type.type = "array"
     THEN IF type.items = "string"
          THEN IF el.text # PyNone
               THEN IF \E i \in 1..Len(el.kids) : el.kids[i].text = PyNone
                    THEN [raised |-> TRUE, value |-> PyNone]
                    ELSE [raised |-> FALSE,
                          value |-> PyList([i \in 1..Len(el.kids) |->
                                       PyStr(strip(el.kids[i].text.text))])]
               ELSE [raised |-> FALSE, value |-> PyList(<<>>)]
          ELSE [raised |-> FALSE,
                value |-> PyList([i \in 1..Len(el.kids) |->
                  IF el.kids[i].text # PyNone
                  THEN LET parts == split(el.kids[i].text.text, ";")
                       IN PyList([j \in 1..Len(parts) |-> PyStr(parts[j])])
                  ELSE PyList(<<>>)])]
     ELSE decode(el.text, type.type)
simple_read_from_xml(base, schema) ==
  LET keys == DOMAIN schema \ {"defaults"}
  IN IF \E key \in keys : read_key(base, key, schema[key]).raised
     THEN [raised |-> TRUE, data |-> <<>>]
     ELSE [raised |-> FALSE,
           data |-> [key \in keys |-> read_key(base, key, schema[key]).value]]

\* PureWindowsPath(path).stem for a path whose separator is "/"
LastIndex(t, c) ==
  IF \E i \in 1..Len(t) : t[i] = c
  THEN CHOOSE i \in 1..Len(t) : t[i] = c /\ \A j \in (i + 1)..Len(t) : t[j] # c
  ELSE 0
stem(path) ==
  LET name == SubSeq(path, LastIndex(path, "/") + 1, Len(path))
      dot == LastIndex(name, ".")
  IN IF 1 < dot /\ dot < Len(name) THEN SubSeq(name, 1, dot - 1) ELSE name

\* encode of a small int
encode_int(i) == <<Digits[i + 1]>>

\* ExtraMQData as a record (the fasta paths are left out); a field that is
\* None or {} does not replace the old one
NoExtra == [file_paths |-> <<>>, output_dir |-> PyNone, tmp_dir |-> PyNone]
update_extra(old, extra_data) ==
  [file_paths |-> IF extra_data.file_paths # <<>> THEN extra_data.file_paths
                  ELSE old.file_paths,
   output_dir |-> IF extra_data.output_dir # PyNone THEN extra_data.output_dir
                  ELSE old.output_dir,
   tmp_dir |-> IF extra_data.tmp_dir # PyNone THEN extra_data.tmp_dir
               ELSE old.tmp_dir]

\* RawFileParams.update_data(user_data): a group that names a preset gets the
\* preset overlaid with its own parameters
raw_update_data(user_data, defaults) ==
  IF \E i \in 1..Len(user_data) :
       /\ "defaults" \in DOMAIN user_data[i].params
       /\ user_data[i].params["defaults"].text \notin DOMAIN defaults
  THEN [raised |-> TRUE, data |-> <<>>]
  ELSE [raised |-> FALSE,
        data |-> [i \in 1..Len(user_data) |->
          LET params == user_data[i].params
          IN IF "defaults" \in DOMAIN params
             THEN [user_data[i] EXCEPT !.params =
                     rec_update(defaults[params["defaults"].text], params).d]
             ELSE user_data[i]]]

\* the files of all groups in order, each with the index of its group
RECURSIVE enumerate_files(_, _)
enumerate_files(data, i) ==
  IF i > Len(data) THEN <<>>
  ELSE [j \in 1..Len(data[i].files) |->
          [grp_ind |-> i - 1, file |-> data[i].files[j]]]
       \o enumerate_files(data, i + 1)

\* a resolution that prefers the path the file itself gives
file_path_text_path_first(file, file_paths) ==
  IF file.name = PyNone THEN [raised |-> TRUE, text |-> <<>>]
  ELSE IF file.path # PyNone THEN [raised |-> FALSE, text |-> encode(file.path)]
  ELSE IF file.name.text \in DOMAIN file_paths
  THEN [raised |-> FALSE, text |-> file_paths[file.name.text]]
  ELSE [raised |-> TRUE, text |-> <<>>]
\* the path RawFileParams.write_into_xml emits for a file; raised stands for
\* the KeyError of file['path']
file_path_text(file, file_paths) ==
  IF file.name = PyNone THEN [raised |-> TRUE, text |-> <<>>]
  ELSE IF file.name.text \in DOMAIN file_paths
  THEN [raised |-> FALSE, text |-> file_paths[file.name.text]]
  ELSE IF file.path = PyNone THEN [raised |-> TRUE, text |-> <<>>]
  ELSE [raised |-> FALSE, text |-> encode(file.path)]

\* RawFileParams.write_into_xml: the root with the five elements appended
raw_write_into_xml(xml_root, data, file_paths, params_schema) ==
  LET all == enumerate_files(data, 1)
      group(i) == simple_write_into_xml(Element("parameterGroup"),
                                        data[i].params, params_schema)
      experiments == [Element("experiments") EXCEPT !.kids =
                        [n \in 1..Len(all) |-> Element("string")]]
      filePaths == [Element("filePaths") EXCEPT !.kids =
                      [n \in 1..Len(all) |->
                         WithText(Element("string"),
                                  file_path_text(all[n].file, file_paths).text)]]
      fractions == [Element("fractions") EXCEPT !.kids =
                      [n \in 1..Len(all) |-> Element("short")]]
      param_group_inds == [Element("paramGroupIndices") EXCEPT !.kids =
                             [n \in 1..Len(all) |->
                                WithText(Element("int"),
                                         encode_int(all[n].grp_ind))]]
      param_groups == [Element("parameterGroups") EXCEPT !.kids =
                         [i \in 1..Len(data) |-> group(i).el]]
  IN IF \/ \E n \in 1..Len(all) : file_path_text(all[n].file, file_paths).raised
        \/ \E i \in 1..Len(data) : group(i).raised
     THEN [raised |-> TRUE, el |-> xml_root]
     ELSE [raised |-> FALSE,
           el |-> [xml_root EXCEPT !.kids = @ \o
                     <<experiments, filePaths, fractions, param_group_inds,
                       param_groups>>]]

\* OutputParams.write_into_xml
output_write_into_xml(root, extra_data) ==
  LET tempFolder == IF extra_data.tmp_dir # PyNone
                    THEN WithText(Element("tempFolder"), encode(extra_data.tmp_dir))
                    ELSE Element("tempFolder")
      outdir == IF extra_data.output_dir # PyNone
                THEN WithText(Element("fixedCombinedFolder"),
                              encode(extra_data.output_dir))
                ELSE Element("fixedCombinedFolder")
  IN [root EXCEPT !.kids = @ \o <<tempFolder, outdir>>]

RECURSIVE sorted(_)
sorted(S) ==
  IF S = {} THEN <<>>
  ELSE LET m == CHOOSE x \in S : \A y \in S : x <= y
       IN <<m>> \o sorted(S \ {m})

\* RawFileParams.from_xml: the files are read from the parallel lists, sorted
\* by group index and grouped; a file is named by the stem of its path
raw_from_xml(root, params_schema, defaults) ==
  LET kids(tag) == root.kids[find(root, tag)].kids
      lists == {"experiments", "filePaths", "fractions", "paramGroupIndices"}
      Min(S) == CHOOSE x \in S : \A y \in S : x <= y
      n == Min({Len(kids(tag)) : tag \in lists})
      path_text(k) == kids("filePaths")[k].text
      has_path(k) == /\ path_text(k) # PyNone
                     /\ strip(path_text(k).text) # <<>>
      path(k) == strip(path_text(k).text)
      name(k) == stem(path(k))
      ind_text(k) == kids("paramGroupIndices")[k].text
      grp_ind(k) == int(strip(ind_text(k).text))
      bad_ind(k) == ind_text(k) = PyNone \/ ~is_int(strip(ind_text(k).text))
      file(k) == [name |-> IF has_path(k) THEN PyStr(name(k)) ELSE PyNone,
                  path |-> PyNone]
      inds == sorted({grp_ind(k) : k \in 1..n})
      params_xml(g) == kids("parameterGroups")[g + 1]
      params(g) == simple_read_from_xml(params_xml(g), params_schema)
      members(g) == SelectSeq([k \in 1..n |-> k], LAMBDA k : grp_ind(k) = g)
      named == {k \in 1..n : has_path(k)}
      last(nm) == CHOOSE k \in named :
                    name(k) = nm /\ \A j \in named : name(j) = nm => j <= k
      paths_dict == [nm \in {name(k) : k \in named} |-> path(last(nm))]
      data == [i \in 1..Len(inds) |->
                 [params |-> params(inds[i]).data,
                  files |-> [j \in 1..Len(members(inds[i])) |->
                               file(members(inds[i])[j])]]]
  IN IF \E tag \in lists : find(root, tag) = 0
     THEN [raised |-> TRUE, data |-> <<>>, paths_dict |-> <<>>]
     ELSE IF \E k \in 1..n : bad_ind(k)
     THEN [raised |-> TRUE, data |-> <<>>, paths_dict |-> <<>>]
     ELSE IF n > 0 /\ find(root, "parameterGroups") = 0
     THEN [raised |-> TRUE, data |-> <<>>, paths_dict |-> <<>>]
     ELSE IF \E i \in 1..Len(inds) :
               \/ inds[i] + 1 > Len(kids("parameterGroups"))
               \/ params(inds[i]).raised
     THEN [raised |-> TRUE, data |-> <<>>, paths_dict |-> <<>>]
     ELSE [raised |-> raw_update_data(data, defaults).raised,
           data |-> raw_update_data(data, defaults).data,
           paths_dict |-> paths_dict]

\* OutputParams.from_xml
output_from_xml(root) ==
  LET tmp == find(root, "tempFolder")
      out == find(root, "fixedCombinedFolder")
  IN IF tmp = 0 \/ out = 0
     THEN [raised |-> TRUE, tmp_folder |-> PyNone, outdir |-> PyNone]
     ELSE [raised |-> FALSE,
           tmp_folder |-> decode(root.kids[tmp].text, "string").value,
           outdir |-> decode(root.kids[out].text, "string").value]

\* data_to_xml and xml_to_data with the sections rawFiles and the output
\* folders (MSMSParams, globalParams, fastaFiles and topLevelParams are not
\* part of the documents below)
data_to_xml(user_data, file_paths, output_dir, tmp_dir, params_schema, defaults) ==
  LET extra_data == update_extra(NoExtra, [file_paths |-> file_paths,
                                           output_dir |-> output_dir,
                                           tmp_dir |-> tmp_dir])
      root == Element("MaxQuantParams")
      merged == raw_update_data(user_data, defaults)
      raw == raw_write_into_xml(root, merged.data, extra_data.file_paths,
                                params_schema)
  IN IF merged.raised \/ raw.raised THEN [raised |-> TRUE, tree |-> root]
     ELSE [raised |-> FALSE, tree |-> output_write_into_xml(raw.el, extra_data)]

xml_to_data(xml_tree, params_schema, defaults) ==
  LET raw == raw_from_xml(xml_tree, params_schema, defaults)
      out == output_from_xml(xml_tree)
      extra1 == update_extra(NoExtra, [NoExtra EXCEPT !.file_paths = raw.paths_dict])
      extra2 == update_extra([NoExtra EXCEPT !.output_dir = out.outdir,
                                             !.tmp_dir = out.tmp_folder],
                             extra1)
  IN IF raw.raised \/ out.raised
     THEN [raised |-> TRUE, data |-> <<>>, extra |-> NoExtra]
     ELSE [raised |-> FALSE, data |-> raw.data, extra |-> extra2]

\* ---- the documents the conversions are applied to
\* the largest number of files of a group and of groups of a document
MaxFiles == 1
MaxGroups == 2

\* the schema of the parameters of a group: a string, a list of strings and a
\* list of lists of strings; the only preset
params_schema ==
  [defaults |-> [type |-> "string", items |-> ""],
   lcmsRunType |-> [type |-> "string", items |-> ""],
   variableModifications |-> [type |-> "array", items |-> "string"],
   labelMods |-> [type |-> "array", items |-> "array"]]
DefaultName == <<"d", "e", "f", "a", "u", "l", "t">>
DefaultParams ==
  [lcmsRunType |-> PyStr(<<"a">>),
   variableModifications |-> PyList(<<>>),
   labelMods |-> PyList(<<>>)]
Presets == DefaultName :> DefaultParams

JustDefaults == [defaults |-> PyStr(DefaultName)]
WithModification ==
  [defaults |-> PyStr(DefaultName),
   variableModifications |-> PyList(<<PyStr(<<"o", "x">>)>>)]
WithLabels ==
  [defaults |-> PyStr(DefaultName),
   lcmsRunType |-> PyStr(<<"b">>),
   labelMods |-> PyList(<<PyList(<<PyStr(<<"a">>), PyStr(<<"b">>)>>),
                          PyList(<<>>)>>)]
UserParams == {JustDefaults, WithModification, WithLabels}

FileNames == {<<"a">>, <<"b">>}
PathTexts == {<<"/", "d", "/", "a", ".", "r">>, <<"/", "b", ".", "r">>}
Files == {[name |-> PyStr(n), path |-> PyNone] : n \in FileNames}
FileLists == UNION {[1..n -> Files] : n \in 0..MaxFiles}
Groups == [params : UserParams, files : FileLists]
Documents == UNION {[1..n -> Groups] : n \in 1..MaxGroups}
FilePathMaps == UNION {[D -> PathTexts] : D \in SUBSET FileNames}
OutputDirs == {PyStr(<<"/", "o">>)}
TmpDirs == {PyNone, PyStr(<<"/", "t">>)}

\* ---- data_to_xml, then xml_to_data on the tree it returned
DataToXml ==
  /\ call.fn = "data_to_xml" /\ call.pc = "start"
  /\ LET r == data_to_xml(call.user_data, call.file_paths, call.output_dir,
                          call.tmp_dir, params_schema, Presets)
     IN call' = [call EXCEPT !.pc = IF r.raised THEN "write_raised" ELSE "written",
                             !.tree = r.tree]
  /\ UNCHANGED <<apartOnly, vm>>

XmlToData ==
  /\ call.fn = "data_to_xml" /\ call.pc = "written"
  /\ LET r == xml_to_data(call.tree, params_schema, Presets)
     IN call' = [call EXCEPT !.pc = IF r.raised THEN "read_raised" ELSE "read",
                             !.data = r.data, !.extra = r.extra]
  /\ UNCHANGED <<apartOnly, vm>>

InitXml ==
  /\ task_re = <<>> /\ dirs = {} /\ maxtasks = <<>> /\ fut = NoFuture
  /\ InitServer
  /\ vm = NoVm
  /\ \E user_data \in Documents, file_paths \in FilePathMaps,
        output_dir \in OutputDirs, tmp_dir \in TmpDirs :
       call = [fn |-> "data_to_xml", pc |-> "start", user_data |-> user_data,
               file_paths |-> file_paths, output_dir |-> output_dir,
               tmp_dir |-> tmp_dir, tree |-> Element("MaxQuantParams"),
               data |-> <<>>, extra |-> NoExtra]

NextXml == DataToXml \/ XmlToData

SpecXml == InitXml /\ [][NextXml]_vars

\* ------------------------------ FSFuture: _run, its observers, its callbacks
\* The thread of _run statement by statement, the callers of done, running,
\* result and exception, and the threads of add_done_callback.  What
\* _copy_infiles, _start_computation and _listen_complete do to the request
\* directory is left to the specifications above; here each of them ends in
\* one of the ways it can end.

\* the largest number of add_done_callback calls
MaxCallbacks == 2
Callbacks == 1..MaxCallbacks

\* the pairs (result, exception) _listen_complete returns
listen_complete_both == {<<"output", LostHeartbeat>>}
listen_complete ==
  {<<None, <<"Exception", RunMsg>>>>, <<"output", NoException>>,
   <<None, LostHeartbeat>>}

\* self._finished.is_set() / not self._finished.is_set()
done(f) == f.finished
running(f) == ~f.finished

\* wrap_fn calls fn without self._finished.wait()
wait_skipped(f) == TRUE
\* self._finished.wait() returns
wait_finished(f) == f.finished

NewFuture ==
  [fn |-> "FSFuture", pc |-> "copy", pending |-> <<None, NoException>>,
   assigned |-> {}, result |-> None, exception |-> NoException,
   finished |-> FALSE,
   cb |-> [c \in Callbacks |-> "none"],
   late |-> [c \in Callbacks |-> FALSE],
   invoked |-> [c \in Callbacks |-> <<>>],
   seen |-> "none"]

\* self._infiles = self._copy_infiles(...) returns, or the except branch is
\* entered with the exception
RunCopy ==
  /\ call.fn = "FSFuture" /\ call.pc = "copy"
  /\ \/ call' = [call EXCEPT !.pc = "start"]
     \/ call' = [call EXCEPT !.pc = "assign_result",
                             !.pending = <<None, CopyError>>]
  /\ UNCHANGED <<apartOnly, vm>>

\* self._start_computation() returns or raises TimeoutError
RunStartComputation ==
  /\ call.fn = "FSFuture" /\ call.pc = "start"
  /\ \/ call' = [call EXCEPT !.pc = "listen"]
     \/ call' = [call EXCEPT !.pc = "assign_result",
                             !.pending = <<None, ServerNotResponding>>]
  /\ UNCHANGED <<apartOnly, vm>>

\* result, exception = self._listen_complete()
RunListenComplete ==
  /\ call.fn = "FSFuture" /\ call.pc = "listen"
  /\ \E pair \in listen_complete :
       call' = [call EXCEPT !.pc = "assign_result", !.pending = pair]
  /\ UNCHANGED <<apartOnly, vm>>

\* self._result = ...
RunAssignResult ==
  /\ call.fn = "FSFuture" /\ call.pc = "assign_result"
  /\ call' = [call EXCEPT !.pc = "assign_exception",
                          !.result = call.pending[1],
                          !.assigned = @ \cup {"_result"}]
  /\ UNCHANGED <<apartOnly, vm>>

\* self._exception = ...
RunAssignException ==
  /\ call.fn = "FSFuture" /\ call.pc = "assign_exception"
  /\ call' = [call EXCEPT !.pc = "set",
                          !.exception = call.pending[2],
                          !.assigned = @ \cup {"_exception"}]
  /\ UNCHANGED <<apartOnly, vm>>

\* self._finished.set(), and _run returns
RunSetFinished ==
  /\ call.fn = "FSFuture" /\ call.pc = "set"
  /\ call' = [call EXCEPT !.pc = "returned", !.finished = TRUE]
  /\ UNCHANGED <<apartOnly, vm>>

Run ==
  \/ RunCopy
  \/ RunStartComputation
  \/ RunListenComplete
  \/ RunAssignResult
  \/ RunAssignException
  \/ RunSetFinished

\* result(timeout) called by another thread: TimeoutError while the event is
\* not set, else the exception is raised or the result returned; reading an
\* attribute that was never assigned is an AttributeError
CallResult ==
  /\ call.fn = "FSFuture"
  /\ call' = [call EXCEPT !.seen =
       IF ~wait_finished(call) THEN "result: TimeoutError"
       ELSE IF "_exception" \notin call.assigned THEN "result: AttributeError"
       ELSE IF call.exception # NoException THEN "result: raised"
       ELSE IF "_result" \notin call.assigned THEN "result: AttributeError"
       ELSE "result: returned"]
  /\ UNCHANGED <<apartOnly, vm>>

\* exception(timeout) called by another thread
CallException ==
  /\ call.fn = "FSFuture"
  /\ call' = [call EXCEPT !.seen =
       IF ~wait_finished(call) THEN "exception: TimeoutError"
       ELSE IF "_exception" \notin call.assigned THEN "exception: AttributeError"
       ELSE "exception: returned"]
  /\ UNCHANGED <<apartOnly, vm>>

\* add_done_callback(fn): a thread for wrap_fn is started
AddDoneCallback(c) ==
  /\ call.fn = "FSFuture"
  /\ call.cb[c] = "none"
  /\ call' = [call EXCEPT !.cb[c] = "waiting", !.late[c] = done(call)]
  /\ UNCHANGED <<apartOnly, vm>>

\* wrap_fn: self._finished.wait(), then fn(self)
WrapFn(c) ==
  /\ call.fn = "FSFuture"
  /\ call.cb[c] = "waiting"
  /\ wait_finished(call)
  /\ call' = [call EXCEPT !.cb[c] = "returned",
                          !.invoked[c] = Append(@, "self")]
  /\ UNCHANGED <<apartOnly, vm>>

InitFuture ==
  /\ task_re = <<>> /\ dirs = {} /\ maxtasks = <<>> /\ fut = NoFuture
  /\ InitServer
  /\ vm = NoVm
  /\ call = NewFuture

NextFuture ==
  \/ Run
  \/ CallResult
  \/ CallException
  \/ \E c \in Callbacks : AddDoneCallback(c)
  \/ \E c \in Callbacks : WrapFn(c)

\* the threads of the callbacks are scheduled; _run is not assumed to end (a
\* server that keeps beating without a terminal file keeps it waiting)
SpecFuture ==
  /\ InitFuture /\ [][NextFuture]_vars
  /\ \A c \in Callbacks : WF_vars(WrapFn(c))

\* ------------------------------------- STATUS: one writer and one reader
\* FSRequest._write_file in its two steps, open(..., 'w') and the write that
\* reaches the file when it is closed, against the reads of a client handle.
\* The request directory is 1; it has been claimed and the writer beats.
StatusLabels == {"WAITING", "PREPARING FILES", "RUNNING", "SUCCESS", "FAILED"}

\* (self._dir / filename).open('w'): the file exists and is empty
open_w(d, filename) ==
  /\ fs' = [fs EXCEPT ![d] = @ \cup {filename}]
  /\ text' = [text EXCEPT ![d][filename] = ""]

\* f.write(message) and the end of the with block
write_close(d, filename, message) ==
  /\ text' = [text EXCEPT ![d][filename] = message]
  /\ UNCHANGED fs

statusOnly == <<task_re, vm, dirs, infiles, maxtasks, now, beatVars, fut,
                listenVars, workerVars>>

\* FSRequest.status(label) is called: _write_file opens STATUS
StatusOpen(d) ==
  /\ call.fn = "status" /\ call.pc = "idle"
  /\ exists(d, "STARTED")
  /\ \E label \in StatusLabels :
       call' = [call EXCEPT !.pc = "opened", !.label = label]
  /\ open_w(d, "STATUS")
  /\ UNCHANGED statusOnly

\* the label is written and the file closed
StatusWrite(d) ==
  /\ call.fn = "status" /\ call.pc = "opened"
  /\ write_close(d, "STATUS", call.label)
  /\ call' = [call EXCEPT !.pc = "idle"]
  /\ UNCHANGED statusOnly

\* FSFuture: self._status = self._read('STATUS'), in _start_computation
\* after self._exists('STATUS', 'BEAT', 'STARTED') and in _listen_complete
StatusRead(d) ==
  /\ call.fn = "status"
  /\ server_answered(d)
  /\ call' = [call EXCEPT !.handle = text[d]["STATUS"],
                          !.seen = @ \cup {text[d]["STATUS"]}]
  /\ UNCHANGED <<statusOnly, fs, text>>

InitStatus ==
  /\ task_re = <<>> /\ maxtasks = <<>> /\ fut = NoFuture
  /\ dirs = {1}
  /\ InitServer
  /\ vm = NoVm
  /\ call = [fn |-> "status", pc |-> "idle", label |-> "",
             handle |-> "NOT STARTED", seen |-> {}]

\* FSFuture._copy_infiles: self._status = 'COPY FILES'
StatusCopyFiles ==
  /\ call.fn = "status" /\ call.handle = "NOT STARTED"
  /\ call' = [call EXCEPT !.handle = "COPY FILES"]
  /\ UNCHANGED <<statusOnly, fs, text>>

\* the client has touched START, the discovery loop has claimed the request
\* and the heartbeat writer has written its first beat
StatusClaimed(d) ==
  /\ call.fn = "status" /\ call.handle = "COPY FILES"
  /\ "STARTED" \notin fs[d]
  /\ fs' = [fs EXCEPT ![d] = @ \cup {"START", "STARTED", "logfile.txt", "output", "BEAT"}]
  /\ UNCHANGED <<statusOnly, call, text>>

NextStatus ==
  \/ StatusCopyFiles
  \/ StatusClaimed(1)
  \/ StatusOpen(1)
  \/ StatusWrite(1)
  \/ StatusRead(1)

SpecStatus == InitStatus /\ [][NextStatus]_vars

\* ------------------------------------------------- mqparams: decode alone
\* decode applied to the text of one leaf element: None, or a text of up to
\* MaxText characters of a sign, a point, two digits and the blank, or one
\* of the texts around true and false.
MaxText == 3
Alphabet == {" ", "0", "1", "-", "."}
BooleanTexts ==
  {<<"t", "r", "u", "e">>, <<"f", "a", "l", "s", "e">>,
   <<" ", "t", "r", "u", "e">>, <<"f", "a", "l", "s", "e", " ">>,
   <<" ", "t", "r", "u", "e", " ", " ">>,
   <<"T", "r", "u", "e">>, <<"F", "a", "l", "s", "e">>,
   <<"T", "R", "U", "E">>, <<"t", "r", "u">>, <<"t", "r", "u", "e", "1">>,
   <<"t", "r", " ", "u", "e">>, <<"y", "e", "s">>}
Texts == UNION {[1..n -> Alphabet] : n \in 0..MaxText} \cup BooleanTexts
\* the types of the schema's leaves, and one the schema does not have
Dtypes == {"number", "string", "integer", "boolean", "object"}

Decode ==
  /\ call.fn = "decode" /\ call.pc = "start"
  /\ call' = [call EXCEPT !.pc = "done",
                          !.result = decode(call.string, call.dtype)]
  /\ UNCHANGED <<apartOnly, vm>>

InitDecode ==
  /\ task_re = <<>> /\ dirs = {} /\ maxtasks = <<>> /\ fut = NoFuture
  /\ InitServer
  /\ vm = NoVm
  /\ \E t \in {PyNone} \cup {PyStr(t) : t \in Texts}, dtype \in Dtypes :
       call = [fn |-> "decode", pc |-> "start", string |-> t, dtype |-> dtype,
               result |-> [raised |-> FALSE, value |-> PyNone]]

SpecDecode == InitDecode /\ [][Decode]_vars

\* ------------------------------------------------------- mqparams: mqrun
\* mqrun on a document of one group of raw files and a fastaFiles section,
\* with the paths of the data files.  The sections without paths are left
\* out.
MaxPathFiles == 2
MaxFasta == 1
RawNames == {<<"a">>, <<"b">>}
FastaNames == {<<"f">>}
RawPath == <<"/", "x", ".", "r", "a", "w">>
FastaPath == <<"/", "y", ".", "f", "a", "s", "t", "a">>
OwnPath == <<"/", "p", ".", "r", "a", "w">>
PathFiles == [name : {PyStr(n) : n \in RawNames},
              path : {PyNone, PyStr(OwnPath)}]
PathFileLists == UNION {[1..n -> PathFiles] : n \in 0..MaxPathFiles}
FastaLists == UNION {[1..n -> FastaNames] : n \in 0..MaxFasta}
DataPathMaps ==
  UNION {[D -> {RawPath, FastaPath}] : D \in SUBSET (RawNames \cup FastaNames)}

\* Path(v).suffix of a path with a dot in its last component
suffix(path) == SubSeq(path, LastIndex(path, "."), Len(path))
\* the entries of datapaths whose suffix is the given one
with_suffix(datapaths, suf) ==
  LET keys == {k \in DOMAIN datapaths : suffix(datapaths[k]) = suf}
  IN [k \in keys |-> datapaths[k]]

\* FastaParams.write_into_xml: raised stands for the KeyError of
\* file_paths[name]
fasta_write_into_xml(root, data, file_paths) ==
  LET item(name) == WithText(Element("string"), file_paths[name])
      fastaFiles == [Element("fastaFiles") EXCEPT !.kids =
                       [n \in 1..Len(data.fileNames) |-> item(data.fileNames[n])]]
      firstSearch == [Element("fastaFilesFirstSearch") EXCEPT !.kids =
                        [n \in 1..Len(data.firstSearch) |->
                           item(data.firstSearch[n])]]
  IN IF \E n \in 1..Len(data.fileNames) : data.fileNames[n] \notin DOMAIN file_paths
     THEN [raised |-> TRUE, el |-> root]
     ELSE IF \E n \in 1..Len(data.firstSearch) :
               data.firstSearch[n] \notin DOMAIN file_paths
     THEN [raised |-> TRUE, el |-> root]
     ELSE [raised |-> FALSE,
           el |-> [root EXCEPT !.kids = @ \o <<fastaFiles, firstSearch>>]]

\* xml_path.open('wb'): params.xml is there and empty
MqrunOpen ==
  /\ call.fn = "mqrun" /\ call.pc = "start"
  /\ call' = [call EXCEPT !.pc = "opened", !.xml_file = "empty"]
  /\ UNCHANGED <<apartOnly, vm>>

\* data_to_xml(params, raw_files, fasta_files, outdir, tmpdir), whose writers
\* run in the order RawFileParams, OutputParams, FastaParams, and xml.write(f)
MqrunDataToXml ==
  /\ call.fn = "mqrun" /\ call.pc = "opened"
  /\ LET raw_files == with_suffix(call.datapaths, <<".", "r", "a", "w">>)
         fasta_files == with_suffix(call.datapaths, <<".", "f", "a", "s", "t", "a">>)
         r == data_to_xml(call.params.rawFiles, raw_files, call.outdir,
                          call.tmpdir, params_schema, Presets)
         f == fasta_write_into_xml(r.tree, call.params.fastaFiles, fasta_files)
     IN IF r.raised \/ f.raised
        THEN call' = [call EXCEPT !.pc = "raised"]
        ELSE call' = [call EXCEPT !.pc = "written", !.tree = f.el,
                                  !.xml_file = "written"]
  /\ UNCHANGED <<apartOnly, vm>>

\* subprocess.Popen([binpath, '-mqpar', xml_path])
MqrunPopen ==
  /\ call.fn = "mqrun" /\ call.pc = "written"
  /\ call' = [call EXCEPT !.pc = "returned", !.spawned = TRUE]
  /\ UNCHANGED <<apartOnly, vm>>

InitMqrun ==
  /\ task_re = <<>> /\ dirs = {} /\ maxtasks = <<>> /\ fut = NoFuture
  /\ InitServer
  /\ vm = NoVm
  /\ \E files \in PathFileLists, fileNames \in FastaLists,
        firstSearch \in FastaLists, datapaths \in DataPathMaps :
       call = [fn |-> "mqrun", pc |-> "start",
               params |-> [rawFiles |-> <<[params |-> JustDefaults,
                                           files |-> files]>>,
                           fastaFiles |-> [fileNames |-> fileNames,
                                           firstSearch |-> firstSearch]],
               datapaths |-> datapaths,
               outdir |-> PyStr(<<"/", "o">>), tmpdir |-> PyNone,
               tree |-> Element("MaxQuantParams"),
               xml_file |-> "absent", spawned |-> FALSE]

NextMqrun == MqrunOpen \/ MqrunDataToXml \/ MqrunPopen

SpecMqrun == InitMqrun /\ [][NextMqrun]_vars

\* ------------------------------------------- mqparams: the presets in memory
\* The objects of the interpreter that the merges touch: a heap of dicts and
\* lists, the table of presets, and one parameter group per request, as the
\* caller built it.  A value is a str or a reference to an object.
NumRequests == 2
MaxMutations == 1
Requests == 1..NumRequests
Leaf(s) == [t |-> "leaf", s |-> s, a |-> 0]
Ref(a) == [t |-> "ref", s |-> "", a |-> a]
DictObj(m) == [kind |-> "dict", m |-> m, items |-> <<>>]
ListObj(items) == [kind |-> "list", m |-> <<>>, items |-> items]
FreeCell == [kind |-> "free", m |-> <<>>, items |-> <<>>]

\* _defaults['rawFileParams'] at 1, its preset 'default' at 2, the list of the
\* preset at 3
TableAddr == 1
PresetAddrs == {1, 2, 3}
\* the group of request r, its params and the list its params may give
GroupAddr(r) == 10 * r - 6
ParamsAddr(r) == 10 * r - 5
UserListAddr(r) == 10 * r - 4
\* the cells the allocator hands out while r is served: for the two copies
\* of the preset and its list, and for the group, params and list read from
\* the xml
CopyAddr(r) == 10 * r - 3
SectionAddr(r) == 10 * r - 1
ReadAddr(r) == 10 * r + 1
HeapSize == 3 + 10 * NumRequests
Addrs == 1..HeapSize
\* the keys of a group's params that hold a list, in the order of the dict
ListKeys == <<"variableModifications">>

UserParamsOf(r) ==
  {[defaults |-> Leaf("default")],
   [defaults |-> Leaf("default"), lcmsRunType |-> Leaf("b"),
    variableModifications |-> Ref(UserListAddr(r))]}

\* the objects reachable from address a
RECURSIVE ReachFrom(_, _, _)
ReachFrom(heap, seen, front) ==
  IF front = {} THEN seen
  ELSE LET a == CHOOSE x \in front : TRUE
           o == heap[a]
           vals == IF o.kind = "dict" THEN {o.m[k] : k \in DOMAIN o.m}
                   ELSE {o.items[i] : i \in 1..Len(o.items)}
           next == {v.a : v \in {w \in vals : w.t = "ref"}}
       IN ReachFrom(heap, seen \cup {a}, (front \cup next) \ (seen \cup {a}))
Reach(heap, a) == ReachFrom(heap, {}, {a})

\* copy.deepcopy(heap[a]) into the free cells from free on: the dict (or the
\* list) itself first, then the lists it holds
deepcopy_shared(heap, a, free) == [heap |-> heap, addr |-> a, free |-> free]
deepcopy(heap, a, free) ==
  LET o == heap[a]
      held == SelectSeq(ListKeys, LAMBDA k : k \in DOMAIN o.m /\ o.m[k].t = "ref")
      at(k) == free + (CHOOSE i \in 1..Len(held) : held[i] = k)
      copied == [k \in DOMAIN o.m |->
                   IF o.m[k].t = "ref" THEN Ref(at(k)) ELSE o.m[k]]
  IN IF o.kind = "list"
     THEN [heap |-> [heap EXCEPT ![free] = o], addr |-> free, free |-> free + 1]
     ELSE [heap |-> [c \in Addrs |->
                       IF c = free THEN DictObj(copied)
                       ELSE IF \E k \in DOMAIN o.m : o.m[k].t = "ref" /\ at(k) = c
                       THEN heap[o.m[CHOOSE k \in DOMAIN o.m :
                                       o.m[k].t = "ref" /\ at(k) = c].a]
                       ELSE heap[c]],
           addr |-> free, free |-> free + 1 + Len(held)]

\* rec_update(d, u) on the dicts at d and u, for a u without nested mappings:
\* d[k] = u[k] stores the value of u, a reference as the same reference
rec_update_at(heap, d, u) ==
  [heap EXCEPT ![d] = DictObj([k \in DOMAIN heap[d].m \cup DOMAIN heap[u].m |->
                                 IF k \in DOMAIN heap[u].m THEN heap[u].m[k]
                                 ELSE heap[d].m[k]])]

aliasOnly == <<apartOnly, vm>>

\* RawFileParams.update_data([user_item]) as data_to_xml calls it, after the
\* sections that are one mapping: the writer that follows only reads
\* self._data
AliasUpdateData(r) ==
  /\ call.fn = "presets" /\ call.pc[r] = "section"
  /\ LET params == call.heap[GroupAddr(r)].m["params"].a
         name == call.heap[params].m["defaults"].s
         preset == call.heap[TableAddr].m[name].a
         default == deepcopy(call.heap, preset, CopyAddr(r))
         updated == rec_update_at(default.heap, default.addr, params)
     IN call' = [call EXCEPT
                   !.heap = [updated EXCEPT ![GroupAddr(r)].m["params"] =
                               Ref(default.addr)],
                   !.data[r] = Append(@, GroupAddr(r)),
                   !.pc[r] = "merged"]
  /\ UNCHANGED aliasOnly

\* MQParamSet.update_data(user_data) of a section that is one mapping, given
\* the params of r: self._data is the copy, the caller's mapping is only read
AliasUpdateSection(r) ==
  /\ call.fn = "presets" /\ call.pc[r] = "new"
  /\ LET params == ParamsAddr(r)
         name == call.heap[params].m["defaults"].s
         preset == call.heap[TableAddr].m[name].a
         copy == deepcopy(call.heap, preset, SectionAddr(r))
     IN call' = [call EXCEPT
                   !.heap = rec_update_at(copy.heap, copy.addr, params),
                   !.data[r] = Append(@, copy.addr),
                   !.pc[r] = "section"]
  /\ UNCHANGED aliasOnly

\* RawFileParams.from_xml of the tree written for r: a group, its params and
\* its list built from the texts of the elements, then update_data of a
\* group without 'defaults'
AliasFromXml(r) ==
  /\ call.fn = "presets" /\ call.pc[r] = "merged"
  /\ LET old == call.heap[call.heap[GroupAddr(r)].m["params"].a].m
         group == ReadAddr(r)
         read == [k \in DOMAIN old \ {"defaults"} |->
                    IF old[k].t = "ref" THEN Ref(group + 2) ELSE old[k]]
     IN call' = [call EXCEPT
                   !.heap = [@ EXCEPT ![group] = DictObj([params |-> Ref(group + 1)]),
                                      ![group + 1] = DictObj(read),
                                      ![group + 2] = ListObj(<<>>)],
                   !.read[r] = <<group>>,
                   !.pc[r] = "read"]
  /\ UNCHANGED aliasOnly

\* the caller changes an object of a document it got for request r: a new
\* item in a list, a new value under a key of a dict
AliasMutate(r) ==
  /\ call.fn = "presets" /\ call.mutations < MaxMutations
  /\ \E root \in {call.data[r][i] : i \in 1..Len(call.data[r])}
              \cup {call.read[r][i] : i \in 1..Len(call.read[r])} :
       \E a \in Reach(call.heap, root) :
         call' = [call EXCEPT
                    !.mutations = @ + 1,
                    !.mutated = @ \cup {a},
                    !.heap[a] =
                      IF @.kind = "list" THEN ListObj(Append(@.items, Leaf("z")))
                      ELSE DictObj([k \in DOMAIN @.m \cup {"lcmsRunType"} |->
                                      IF k = "lcmsRunType" THEN Leaf("z")
                                      ELSE @.m[k]])]
  /\ UNCHANGED aliasOnly

\* the table as the module loads it
PresetObjects ==
  <<DictObj([default |-> Ref(2)]),
    DictObj([lcmsRunType |-> Leaf("a"), variableModifications |-> Ref(3)]),
    ListObj(<<>>)>>
InitHeap(user) ==
  [a \in Addrs |->
     IF a \in PresetAddrs THEN PresetObjects[a]
     ELSE IF \E r \in Requests : a = GroupAddr(r)
     THEN DictObj([params |-> Ref(a + 1)])
     ELSE IF \E r \in Requests : a = ParamsAddr(r)
     THEN DictObj(user[CHOOSE r \in Requests : a = ParamsAddr(r)])
     ELSE IF \E r \in Requests : a = UserListAddr(r)
     THEN ListObj(<<Leaf("ox")>>)
     ELSE FreeCell]

InitPresets ==
  /\ task_re = <<>> /\ dirs = {} /\ maxtasks = <<>> /\ fut = NoFuture
  /\ InitServer
  /\ vm = NoVm
  /\ \E user \in {u \in [Requests -> UNION {UserParamsOf(r) : r \in Requests}] :
                    \A r \in Requests : u[r] \in UserParamsOf(r)} :
       call = [fn |-> "presets", heap |-> InitHeap(user),
               pc |-> [r \in Requests |-> "new"],
               data |-> [r \in Requests |-> <<>>],
               read |-> [r \in Requests |-> <<>>],
               mutations |-> 0, mutated |-> {}]

NextPresets ==
  \E r \in Requests :
    \/ AliasUpdateData(r)
    \/ AliasUpdateSection(r)
    \/ AliasFromXml(r)
    \/ AliasMutate(r)

SpecPresets == InitPresets /\ [][NextPresets]_vars

\* ------------------------------------------------------------- the claims
Has(seq, x) == \E i \in 1..Len(seq) : seq[i] = x
Label(d) == IF exists(d, "STATUS") THEN text[d]["STATUS"] ELSE None

\* the worker of d is between the acquire and the release of the gate
InPrepare(d) ==
  \/ pc[d] \in {"status_prep", "process", "rel_prep_ok", "rel_prep_err"}
  \/ pc[d] \in {"err_file", "err_status"} /\ after[d] = "rel_prep_err"
InExecute(d) ==
  \/ pc[d] \in {"status_run", "spawn", "poll", "rel_mq_ok", "rel_mq_err"}
  \/ pc[d] \in {"err_file", "err_status"} /\ after[d] = "rel_mq_err"

\* C1: for every request directory the exclusive create of STARTED succeeds
\* at most once over all discovery loops and all their scans, and at most one
\* Request is yielded for it.
C1_StartedCreatedOnce ==
  \A d \in Dirs : created[d] <= 1 /\ yielded[d] <= 1

\* one loop has claimed d and a second loop, which saw START too, is about to
\* try the exclusive create
C1_Witness ==
  \E d \in Dirs : \E l1, l2 \in Listeners :
    /\ l1 # l2
    /\ created[d] = 1
    /\ lpc[l1] \in {"new", "yield"} /\ cur[l1] = d
    /\ lpc[l2] = "open" /\ cur[l2] = d

\* C2: a worker that has finished has reached exactly one terminal outcome:
\* the terminal file is written and STATUS holds that label.
C2_FinishedWorkerIsTerminal ==
  \A d \in Dirs : pc[d] = "done" =>
    \/ exists(d, "SUCCESS") /\ ~exists(d, "FAILED") /\ Label(d) = "SUCCESS"
    \/ exists(d, "FAILED") /\ ~exists(d, "SUCCESS") /\ Label(d) = "FAILED"

\* C3: the outcome of a task whose engine was spawned follows the exit code:
\* exit code 0 with the output captured gives the SUCCESS file and STATUS
\* SUCCESS, a non-zero exit code gives FAILED, never SUCCESS.
C3_ExitCodeDecidesOutcome ==
  \A d \in Dirs : pc[d] = "done" /\ hist[d].spawned =>
    /\ engine[d] = "exit0" /\ ~hist[d].capture_failed =>
         exists(d, "SUCCESS") /\ Label(d) = "SUCCESS"
    /\ engine[d] = "exit1" =>
         exists(d, "FAILED") /\ ~exists(d, "SUCCESS") /\ Label(d) = "FAILED"

\* C4: at most num_workers request directories publish the label PREPARING
\* FILES, and at most num_workers publish RUNNING.
C4_PublishedLabelsBounded ==
  /\ Cardinality({d \in Dirs : Label(d) = "PREPARING FILES"}) <= num_workers
  /\ Cardinality({d \in Dirs : Label(d) = "RUNNING"}) <= num_workers

\* C5: at most num_workers workers are inside the preparation region, at most
\* num_workers engine children are alive, an engine is spawned only by a
\* worker that acquired the execute gate, and while the child is alive its
\* worker is still polling inside the region (the permit is not released).
C5_GatesBoundWork ==
  /\ Cardinality({d \in Dirs : InPrepare(d)}) <= num_workers
  /\ Cardinality({d \in Dirs : engine[d] = "alive"}) <= num_workers
  /\ \A d \in Dirs : hist[d].spawned => hist[d].acq_mq
  /\ \A d \in Dirs : engine[d] = "alive" => pc[d] = "poll" /\ InExecute(d)

\* every permit of the execute gate is taken by a live engine while another
\* worker waits at the gate
C5_Witness ==
  /\ Cardinality({d \in Dirs : engine[d] = "alive"}) = num_workers
  /\ mq_sem = 0
  /\ \E d \in Dirs : pc[d] = "acq_mq"

\* C6: a task whose preparation failed (timeout at the prepare gate, or an
\* exception of _process_params) never acquires the execute gate, never
\* publishes RUNNING and never spawns the engine.
C6_FailedPreparationStops ==
  \A d \in Dirs : hist[d].prep_failed \/ hist[d].sem_timeout = "prepare" =>
    /\ ~hist[d].acq_mq
    /\ ~Has(hist[d].labels, "RUNNING")
    /\ ~hist[d].spawned
    /\ engine[d] = "none"
    /\ pc[d] \in {"err_file", "err_status", "rel_prep_err", "exit_beat", "done"}

\* one worker has finished after an exception in _process_params, another
\* after a timeout at the prepare gate
C6_Witness ==
  \E d1, d2 \in Dirs :
    /\ hist[d1].prep_failed /\ pc[d1] = "done"
    /\ hist[d2].sem_timeout = "prepare" /\ pc[d2] = "done"

\* C7: a worker whose acquire of a gate timed out reports FAILED with the
\* message "Timeout. No resources available.", has not entered the region of
\* that gate, and performs no later stage.
C7_GateTimeoutFails ==
  \A d \in Dirs : hist[d].sem_timeout # "none" =>
    /\ pc[d] \in {"err_file", "err_status", "exit_beat", "done"}
    /\ errmsg[d] = "Timeout. No resources available."
    /\ exists(d, "FAILED") => text[d]["FAILED"] = "Timeout. No resources available."
    /\ pc[d] \in {"exit_beat", "done"} => exists(d, "FAILED") /\ Label(d) = "FAILED"
    /\ ~InPrepare(d) /\ ~InExecute(d)
    /\ ~Has(hist[d].labels, "RUNNING") /\ ~hist[d].spawned /\ engine[d] = "none"
    /\ hist[d].sem_timeout = "prepare" =>
         ~Has(hist[d].labels, "PREPARING FILES") /\ ~hist[d].acq_mq
    /\ hist[d].sem_timeout = "execute" => ~hist[d].acq_mq

\* a worker has finished after a timeout at the execute gate, which a live
\* engine of another task kept taken
C7_Witness ==
  \E d \in Dirs :
    /\ hist[d].sem_timeout = "execute"
    /\ pc[d] = "done"
    /\ \E e \in Dirs : hist[e].spawned

\* C8: with a finite mq_timeout configured, an engine is never alive (its
\* task RUNNING) after more than the deadline plus one polling period.
C8_EngineKilledAtDeadline ==
  \A d \in Dirs : engine[d] = "alive" => elapsed[d] <= CfgMqTimeout + 1

\* C9: SUCCESS and FAILED never both exist in a request directory, and once
\* STATUS holds a terminal label nothing is written to the directory any
\* more, the label stays, and the worker runs no further stage: it only
\* releases its gate and leaves.
TerminalLabel(d) == Label(d) \in {"SUCCESS", "FAILED"}
C9_TerminalIsAbsorbing ==
  /\ [](\A d \in Dirs : ~(exists(d, "SUCCESS") /\ exists(d, "FAILED")))
  /\ [][\A d \in Dirs : TerminalLabel(d) =>
          /\ text'[d] = text[d]
          /\ fs'[d] = fs[d]
          /\ hist'[d] = hist[d]
          /\ engine'[d] = engine[d]
          /\ pc'[d] \in {"rel_prep_err", "rel_mq_err", "exit_beat", "done"}]_vars

\* a worker has published FAILED inside the preparation region and finished
C9_Witness ==
  \E d \in Dirs :
    /\ Label(d) = "FAILED" /\ exists(d, "FAILED")
    /\ hist[d].prep_failed
    /\ pc[d] = "done"

\* C10: a request directory without START is never claimed (no STARTED in
\* it, no loop past the START test for it) and never yielded.
C10_NoStartNoClaim ==
  \A d \in Dirs : ~exists(d, "START") =>
    /\ ~exists(d, "STARTED")
    /\ created[d] = 0
    /\ yielded[d] = 0
    /\ pc[d] = "none"
    /\ \A l \in Listeners : lpc[l] \in {"open", "new", "yield"} => cur[l] # d

\* a scan has passed over a directory that holds no START while another
\* directory was claimed and yielded
C10_Witness ==
  \E d, e \in Dirs :
    /\ d \in dirs /\ skipped[d] /\ ~exists(d, "START")
    /\ yielded[e] = 1

\* C11: with task_re configured, every directory that discovery has claimed
\* or yielded (or is about to claim) has a name equal to the pattern as a
\* whole; a name that only starts with the pattern is never claimed.
C11_OnlyFullMatchesClaimed ==
  task_re # <<>> =>
    \A d \in Dirs :
      \/ DirName(d) = task_re
      \/ /\ ~exists(d, "STARTED")
         /\ created[d] = 0
         /\ yielded[d] = 0
         /\ \A l \in Listeners : lpc[l] \in {"open", "new", "yield"} => cur[l] # d

\* a terminal file is present in the request directory
Terminal(d) == exists(d, "SUCCESS") \/ exists(d, "FAILED")
\* the time of the last line of BEAT, or of the worker's start while there
\* is none
LastSign(d) == IF beat[d] >= hist[d].start_time THEN beat[d] ELSE hist[d].start_time

\* C12: from the start of a task's worker until SUCCESS or FAILED is there,
\* the last line of BEAT is never older than two beat intervals.
C12_HeartbeatWhileNonTerminal ==
  \A d \in Dirs : pc[d] \notin {"none", "run"} /\ ~Terminal(d) =>
    now - LastSign(d) <= 2 * BeatInterval

\* C13: START is in the request directory only when every input file is
\* completely copied; a failed copy ends the future with the copy error and
\* START is never created, so the server never claims the request.
AllCopied(d) == infiles[d] = {OrigInfiles[i] : i \in 1..Len(OrigInfiles)}
C13_StartAfterCopies ==
  /\ exists(fut.dir, "START") => AllCopied(fut.dir)
  /\ exists(fut.dir, "STARTED") \/ pc[fut.dir] # "none" => AllCopied(fut.dir)
  /\ fut.exception = CopyError =>
       /\ fut.pc = "finished" /\ fut.result = None
       /\ ~exists(fut.dir, "START") /\ ~exists(fut.dir, "STARTED")
       /\ created[fut.dir] = 0 /\ pc[fut.dir] = "none"

\* the copy of the second file failed, and a scan of the server has passed
\* over the half-copied request
C13_Witness ==
  /\ fut.exception = CopyError /\ fut.pc = "finished"
  /\ <<"partial">> \in infiles[fut.dir] /\ Cardinality(infiles[fut.dir]) = 2
  /\ skipped[fut.dir]

C15_MonitorSleepsBeatTimeout ==
  /\ fut.pc = "mon" /\ fut.arg_beat_timeout # <<>> =>
       fut.wake - now <= fut.arg_beat_timeout[1]
  /\ fut.exception = LostHeartbeat =>
       fut.monitored /\ ~(beat[fut.dir] - fut.last_beat > 0)

\* C16: a future that completed when FAILED was in the request directory
\* carries the message of FAILED; one that completed when SUCCESS was there
\* returns the output directory.
C16_FutureReportsOutcome ==
  fut.pc = "finished" =>
    /\ fut.seen_failed => fut.exception = <<"Exception", text[fut.dir]["FAILED"]>>
    /\ exists(fut.dir, "SUCCESS") /\ ~fut.seen_failed => fut.result = "output"

\* C17: cancelled() is false in every state, and a call of cancel raises
\* NotImplementedError and changes neither the future nor the request
\* directory nor the server's worker.
C17_CancelUnsupported ==
  /\ [](~cancelled(fut))
  /\ [][fut'.cancel_raised # fut.cancel_raised =>
          /\ fut'.cancel_raised = "NotImplementedError"
          /\ [fut' EXCEPT !.cancel_raised = None] = [fut EXCEPT !.cancel_raised = None]
          /\ UNCHANGED <<fs, text, infiles, beatVars, listenVars, workerVars>>]_vars

\* cancel was called, the engine of the request ran on and failed, and the
\* future, still not cancelled, has completed with the server's message
C17_Witness ==
  /\ fut.cancel_raised = "NotImplementedError"
  /\ fut.pc = "finished"
  /\ hist[fut.dir].spawned
  /\ fut.exception = <<"Exception", RunMsg>>

\* C18: the number of requests for which serve has started a worker never
\* exceeds the configured maxtasks.
C18_AtMostMaxtasksStarted ==
  maxtasks # <<>> =>
    /\ Cardinality(tasks[1]) <= maxtasks[1]
    /\ Cardinality({d \in Dirs : pc[d] # "none"}) <= maxtasks[1]

\* the worker of d is past the preparation region without an error
PastPreparation(d) ==
  \/ pc[d] \in {"rel_prep_ok", "wait_mq", "acq_mq", "status_run", "spawn", "poll",
                "rel_mq_ok", "rel_mq_err"}
  \/ hist[d].acq_mq \/ hist[d].spawned \/ engine[d] # "none"
\* the worker of d has finished and the task is FAILED
FinishedFailed(d) ==
  pc[d] = "done" => exists(d, "FAILED") /\ Label(d) = "FAILED"

\* the files of a request whose extension is .yaml or .json in any case
ParamFilesOf(F) == {f \in F : lower(f[2]) \in {".yaml", ".json"}}

\* C19: a request whose input files hold no parameter file, or more than one
\* file with the extension .yaml or .json, fails in preparation: the task
\* ends FAILED and the engine is never spawned; with exactly one parameter
\* file preparation does not fail for the number of parameter files.
C19_ParamFileCountDecides ==
  \A d \in Dirs : pc[d] # "none" =>
    /\ Cardinality(ParamFilesOf(infiles[d])) # 1 =>
         ~PastPreparation(d) /\ FinishedFailed(d)
    /\ Cardinality(ParamFilesOf(infiles[d])) = 1 =>
         errmsg[d] \notin {PrepareMsg("Too many parameter files"),
                           PrepareMsg("No parameter file")}

\* C20: a request with an input file whose .sha sidecar is malformed or
\* records another digest fails in preparation: the task ends FAILED and
\* the engine is never spawned.
C20_BadChecksumFails ==
  \A d \in Dirs : pc[d] # "none" /\ do_checksums(infiles[d]) # "ok" =>
    ~PastPreparation(d) /\ FinishedFailed(d)

\* C23: for each gate, the free permits plus the workers inside the region
\* the gate protects are num_workers in every state; a worker whose acquire
\* timed out holds no permit; when no worker is running both gates are back
\* at num_workers.
C23_PermitsConserved ==
  /\ prepare_sem + Cardinality({d \in Dirs : InPrepare(d)}) = num_workers
  /\ mq_sem + Cardinality({d \in Dirs : InExecute(d)}) = num_workers
  /\ \A d \in Dirs : hist[d].sem_timeout # "none" => ~InPrepare(d) /\ ~InExecute(d)
  /\ (\A d \in Dirs : pc[d] \in {"none", "done"}) =>
       prepare_sem = num_workers /\ mq_sem = num_workers

\* every worker has finished, one after a timed-out acquire and one after
\* its engine was spawned, and both gates are free again
C23_Witness ==
  /\ \A d \in Dirs : pc[d] = "done"
  /\ \E d, e \in Dirs : hist[d].sem_timeout # "none" /\ hist[e].spawned
  /\ prepare_sem = num_workers /\ mq_sem = num_workers

\* the stages of a task in the order _execute_task publishes them
Stages == <<"WAITING", "PREPARING FILES", "WAITING", "RUNNING">>
LabelsInOrder(L) ==
  \/ IsPrefix(L, Stages)
  \/ /\ Len(L) >= 2
     /\ IsPrefix(AllButLast(L), Stages)
     /\ \/ L[Len(L)] = "FAILED"
        \/ L[Len(L)] = "SUCCESS" /\ AllButLast(L) = Stages

\* C24: the labels a task writes to STATUS are a prefix of WAITING,
\* PREPARING FILES, WAITING, RUNNING, followed by at most one terminal label:
\* FAILED after any stage, SUCCESS only after RUNNING; STATUS holds the last
\* label written.
C24_LabelsInOrder ==
  \A d \in Dirs :
    /\ LabelsInOrder(hist[d].labels)
    /\ exists(d, "STATUS") =>
         /\ hist[d].labels # <<>>
         /\ text[d]["STATUS"] = hist[d].labels[Len(hist[d].labels)]

\* one task failed after all four stages, another right after its first
C24_Witness ==
  \E d, e \in Dirs :
    /\ hist[d].labels = Stages \o <<"FAILED">>
    /\ hist[e].labels = <<"WAITING", "FAILED">>

\* C25: when the instantiation of the Request of a claimed candidate raises
\* (output/ is already in the request directory), the candidate is not
\* yielded, its STARTED stays, and the discovery loop goes on with the next
\* directory of the scan; a discovery loop never ends with an exception.
C25_FailedInstantiationIsDropped ==
  /\ [](\A l \in Listeners : lpc[l] # "raised")
  /\ [][\A l \in Listeners : lpc[l] = "new" /\ lpc'[l] # "new" =>
          IF exists(cur[l], "output")
          THEN /\ lpc'[l] = "iter"
               /\ yielded'[cur[l]] = yielded[cur[l]]
               /\ pc'[cur[l]] = "none"
          ELSE lpc'[l] = "yield"]_vars
  /\ [][\A d \in Dirs : exists(d, "STARTED") => "STARTED" \in fs'[d]]_vars

\* C26: a worker that has left the heartbeat scope, by a normal return of the
\* body or by an exception, has the stop flag set; once set by error() the
\* flag stays set when the scope is left.
C26_ScopeExitStopsBeat ==
  \A d \in Dirs :
    /\ pc[d] = "done" => stop_beating_flag[d]
    /\ pc[d] \in {"err_file", "err_status", "rel_prep_err", "rel_mq_err"} =>
         stop_beating_flag[d]

\* an exception was raised in the lifecycle of the worker of d
Raised(d) == hist[d].prep_failed \/ hist[d].unexpected \/ errmsg[d] = RunMsg

\* C29: a worker that has finished after an exception left its task FAILED
\* with a message: FAILED holds the message and STATUS the label FAILED; the
\* discovery loop has not ended, and when no worker is running every permit
\* of both gates is free for the next one.
C29_ExceptionsBecomeFailed ==
  /\ \A d \in Dirs : pc[d] = "done" /\ Raised(d) =>
       /\ exists(d, "FAILED")
       /\ text[d]["FAILED"] # "" /\ text[d]["FAILED"] = errmsg[d]
       /\ Label(d) = "FAILED"
  /\ lpc[1] \notin {"raised", "returned"}
  /\ (\A d \in Dirs : pc[d] \in {"none", "done"}) =>
       prepare_sem = num_workers /\ mq_sem = num_workers

\* C27: once the stop flag of a started heartbeat is set (the stop operation
\* has returned), no line is appended to BEAT any more.
C27_NoBeatAfterStop ==
  [][\A d \in Dirs : bpc[d] # "none" /\ stop_beating_flag[d] =>
        /\ beat'[d] = beat[d]
        /\ ~(bpc[d] = "write" /\ bpc'[d] = "sleep")]_vars

\* C28: serve called with maxtasks has returned only when every worker it
\* started has terminated, and once the number of started workers has
\* reached maxtasks it starts no further worker.
C28_JoinAfterCap ==
  /\ [](maxtasks # <<>> /\ lpc[1] = "returned" =>
          \A d \in tasks[1] : pc[d] = "done")
  /\ [][maxtasks # <<>> /\ Cardinality(tasks[1]) >= maxtasks[1] =>
          /\ tasks'[1] = tasks[1]
          /\ \A d \in Dirs : pc[d] = "none" => pc'[d] = "none"]_vars

\* the deep merge of the user mapping u over the defaults d
RECURSIVE DeepMerge(_, _)
DeepMerge(d, u) ==
  [k \in DOMAIN d \cup DOMAIN u |->
     IF k \notin DOMAIN u THEN d[k]
     ELSE IF k \notin DOMAIN d THEN u[k]
     ELSE IF d[k].kind = "map" /\ u[k].kind = "map"
          THEN MapV(DeepMerge(d[k].m, u[k].m))
          ELSE u[k]]

\* C30: the data after update_data is the deep merge of the user mapping over
\* the defaults: a key of one side keeps that side's value, two mappings are
\* merged recursively, otherwise the user value (a list as a whole) replaces
\* the default; the merge does not fail.
C30_DeepMerge ==
  call.fn = "update_data" /\ call.done =>
    ~call.raised /\ call.data = DeepMerge(call.defaults, call.user)

WithoutDefaults(params) == [k \in DOMAIN params \ {"defaults"} |-> params[k]]
AfterOverlay(user_data) ==
  LET merged == raw_update_data(user_data, Presets).data
  IN [i \in 1..Len(merged) |->
        [merged[i] EXCEPT !.params = WithoutDefaults(@)]]
DocumentRecovered == call.data = AfterOverlay(call.user_data)
PathsRecovered ==
  \A i \in 1..Len(call.user_data) :
    \A j \in 1..Len(call.user_data[i].files) :
      LET name == call.user_data[i].files[j].name.text
      IN /\ name \in DOMAIN call.extra.file_paths
         /\ call.extra.file_paths[name] = call.file_paths[name]
FoldersRecovered ==
  /\ call.extra.output_dir = call.output_dir
  /\ call.extra.tmp_dir = call.tmp_dir

\* the shape of the example of the module documentation: every group has a
\* file, every file is in the path map and is named by the stem of its path
ExampleShaped ==
  \A i \in 1..Len(call.user_data) :
    /\ call.user_data[i].files # <<>>
    /\ \A j \in 1..Len(call.user_data[i].files) :
         LET name == call.user_data[i].files[j].name.text
         IN /\ name \in DOMAIN call.file_paths
            /\ stem(call.file_paths[name]) = name

\* C21: whenever data_to_xml has built the tree of a document d with path
\* maps P, xml_to_data of that tree returns (d', P') without raising, d' is d
\* after default overlay (lists of strings and lists of lists of strings
\* included), P' holds every path entry d uses, and the output and temporary
\* folders are the ones given.  Stated for the documents of the shape of the
\* documented example, which the claim covers.
C21_RoundTrip ==
  (call.fn = "data_to_xml" /\ call.pc \in {"read", "read_raised"}
     /\ ExampleShaped) =>
    /\ call.pc = "read"
    /\ DocumentRecovered
    /\ PathsRecovered
    /\ FoldersRecovered

\* C36: in every reachable state of a request directory, when the FAILED file
\* exists STATUS holds the label FAILED, and when the SUCCESS file exists
\* STATUS holds the label SUCCESS.
C36_TerminalFileAfterLabel ==
  \A d \in Dirs :
    /\ exists(d, "FAILED") => Label(d) = "FAILED"
    /\ exists(d, "SUCCESS") => Label(d) = "SUCCESS"

\* C35: a worker that waits at the execute gate holds no permit of the
\* prepare gate (the permits of the prepare gate are free or held by other
\* workers), and a worker at a gate is never stuck: it can acquire the permit
\* or its acquire times out.
AtExecuteGate(d) == pc[d] \in {"wait_mq", "acq_mq"}
AtGate(d) == pc[d] \in {"acq_prep", "acq_mq"}
C35_GatesDoNotDeadlock ==
  \A d \in Dirs :
    /\ AtExecuteGate(d) =>
         prepare_sem + Cardinality({e \in Dirs \ {d} : InPrepare(e)}) = num_workers
    /\ AtGate(d) => ENABLED Worker(d)

\* a worker is blocked at the execute gate: it has no free permit because
\* another worker is inside the execute region
C35_Witness ==
  \E d, e \in Dirs :
    /\ d # e
    /\ pc[d] = "acq_mq" /\ mq_sem = 0
    /\ InExecute(e)

\* C39: in every reachable state of a request directory, if STATUS, BEAT,
\* output/, logfile.txt, SUCCESS or FAILED exists there, then START and
\* STARTED both exist.
ServerArtifacts == {"STATUS", "BEAT", "output", "logfile.txt", "SUCCESS", "FAILED"}
C39_ArtifactsAfterStarted ==
  \A d \in Dirs :
    fs[d] \cap ServerArtifacts # {} => {"START", "STARTED"} \subseteq fs[d]

\* the server has written the log file, output/, STATUS, BEAT and FAILED into
\* the directory of the submitted request
C39_Witness ==
  {"logfile.txt", "output", "STATUS", "BEAT", "FAILED"} \subseteq fs[fut.dir]

\* C37: done() and running() are never both true and never both false; once
\* done() is true it stays true; and when done() is true the result and the
\* exception have both been assigned, exactly one of them is not None, and
\* result() and exception() have not met a missing attribute.
C37_DoneXorRunning ==
  /\ [](/\ done(call) # running(call)
        /\ done(call) =>
             /\ {"_result", "_exception"} \subseteq call.assigned
             /\ (call.result = None) # (call.exception = NoException)
        /\ call.seen \notin {"result: AttributeError", "exception: AttributeError"})
  /\ [][done(call) => done(call')]_vars

\* a done future whose result() returned the output directory
C37_Witness ==
  /\ done(call)
  /\ call.result = "output"
  /\ call.seen = "result: returned"

\* C38: every callback registered with add_done_callback is invoked exactly
\* once with the future as argument, only when the future is done (and then
\* eventually), whether it was registered before or after completion.
C38_CallbackOnce ==
  /\ [](\A c \in Callbacks :
          /\ Len(call.invoked[c]) <= 1
          /\ call.invoked[c] # <<>> => done(call) /\ call.invoked[c] = <<"self">>
          /\ call.cb[c] = "returned" => call.invoked[c] = <<"self">>)
  /\ \A c \in Callbacks :
       (call.cb[c] = "waiting" /\ done(call)) ~> (call.invoked[c] = <<"self">>)

\* two callbacks have been invoked, one registered before and one after the
\* future was done
C38_Witness ==
  \E c, e \in Callbacks :
    /\ call.late[c] /\ ~call.late[e]
    /\ call.invoked[c] = <<"self">> /\ call.invoked[e] = <<"self">>

\* C40: a read of an existing STATUS file by a client returns one of the
\* labels WAITING, PREPARING FILES, RUNNING, SUCCESS, FAILED, whatever the
\* server is doing, so the status of the handle is NOT STARTED, COPY FILES or
\* one of the five labels.
C40_StatusReadsWhole ==
  call.fn = "status" =>
    /\ call.seen \subseteq StatusLabels
    /\ call.handle \in {"NOT STARTED", "COPY FILES"} \cup StatusLabels

\* u is t without the blanks around it, said without strip
IsTrimOf(u, t) ==
  \E i \in 1..(Len(t) + 1), j \in 0..Len(t) :
    /\ u = SubSeq(t, i, j)
    /\ \A k \in 1..Len(t) : (k < i \/ k > j) => t[k] = " "
    /\ u # <<>> => (u[1] # " " /\ u[Len(u)] # " ")
Trimmed(t) == CHOOSE u \in {SubSeq(t, i, j) : i \in 1..(Len(t) + 1), j \in 0..Len(t)} :
                IsTrimOf(u, t)
Returned(r, kind) == ~r.raised /\ r.value.kind = kind
\* C34: decode removes the blanks around the text and then: "boolean" gives
\* True for exactly true, False for exactly false and raises for every other
\* text; "integer" and "number" give the int or float the text denotes, or
\* raise when it denotes none; "string" gives the trimmed text, the empty
\* one included; and None decodes to None whatever the type.
C34_Decode ==
  (call.fn = "decode" /\ call.pc = "done") =>
    LET r == call.result
    IN IF call.string = PyNone THEN ~r.raised /\ r.value = PyNone
       ELSE LET u == Trimmed(call.string.text)
            IN /\ call.dtype = "boolean" =>
                    /\ u = <<"t", "r", "u", "e">> =>
                         Returned(r, "bool") /\ r.value.items = <<TRUE>>
                    /\ u = <<"f", "a", "l", "s", "e">> =>
                         Returned(r, "bool") /\ r.value.items = <<FALSE>>
                    /\ u \notin {<<"t", "r", "u", "e">>, <<"f", "a", "l", "s", "e">>}
                         => r.raised
               /\ call.dtype = "integer" =>
                    IF is_int(u)
                    THEN Returned(r, "int") /\ r.value.items = <<int(u)>>
                    ELSE r.raised
               /\ call.dtype = "number" =>
                    IF is_float(u)
                    THEN Returned(r, "float") /\ r.value = float(u)
                    ELSE r.raised
               /\ call.dtype = "string" =>
                    Returned(r, "str") /\ r.value.text = u
\* decoded: " true  " as a boolean
C34_Witness ==
  /\ call.fn = "decode" /\ call.pc = "done"
  /\ call.dtype = "boolean"
  /\ call.string = PyStr(<<" ", "t", "r", "u", "e", " ", " ">>)
  /\ call.result = [raised |-> FALSE, value |-> PyBool(TRUE)]

\* the documents the round trip of the parameters and of the file names is
\* not in question for: every file is in the path map and named by the stem
\* of its path, and no group gives a list of strings that is not empty
PlainlyNamed ==
  \A i \in 1..Len(call.user_data) :
    /\ "variableModifications" \in DOMAIN call.user_data[i].params
         => call.user_data[i].params["variableModifications"] = PyList(<<>>)
    /\ \A j \in 1..Len(call.user_data[i].files) :
         LET name == call.user_data[i].files[j].name.text
         IN /\ name \in DOMAIN call.file_paths
            /\ stem(call.file_paths[name]) = name
FileNamesOf(group) == [j \in 1..Len(group.files) |-> group.files[j].name]
\* C32: the rawFiles section read back from the tree data_to_xml built has as
\* many groups as the document, in the same order, and each group has the
\* names of its files in order and its own parameters, also when the
\* document has several groups, groups with the same file name or groups
\* without files.
C32_GroupingKept ==
  (call.fn = "data_to_xml" /\ call.pc \in {"read", "read_raised"}
     /\ PlainlyNamed) =>
    /\ call.pc = "read"
    /\ Len(call.data) = Len(call.user_data)
    /\ \A i \in 1..Len(call.data) :
         /\ FileNamesOf(call.data[i]) = FileNamesOf(call.user_data[i])
         /\ call.data[i].params = AfterOverlay(call.user_data)[i].params
\* the same for the documents whose groups all have a file
C32_GroupsWithFilesKept ==
  (\A i \in 1..Len(call.user_data) : call.user_data[i].files # <<>>)
    => C32_GroupingKept

\* the path a raw file resolves to, and whether it has one
HasPath(file, raw_files) ==
  file.name.text \in DOMAIN raw_files \/ file.path # PyNone
ResolvedPath(file, raw_files) ==
  IF file.name.text \in DOMAIN raw_files THEN raw_files[file.name.text]
  ELSE file.path.text
TextsOf(el) == [n \in 1..Len(el.kids) |-> el.kids[n].text]
\* C33: when mqrun has converted the document, a raw file whose name is in
\* the map of raw paths has the mapped path in filePaths, any other raw file
\* has its own path field there, and the fasta names have the paths of the
\* fasta map; when a raw file has neither, or a fasta name is not in the
\* fasta map, the conversion raises and mqrun never starts the engine.
C33_PathResolution ==
  (call.fn = "mqrun" /\ call.pc \in {"raised", "written", "returned"}) =>
    LET raw_files == with_suffix(call.datapaths, <<".", "r", "a", "w">>)
        fasta_files == with_suffix(call.datapaths, <<".", "f", "a", "s", "t", "a">>)
        files == call.params.rawFiles[1].files
        fasta == call.params.fastaFiles
        resolvable ==
          /\ \A j \in 1..Len(files) : HasPath(files[j], raw_files)
          /\ \A n \in 1..Len(fasta.fileNames) :
               fasta.fileNames[n] \in DOMAIN fasta_files
          /\ \A n \in 1..Len(fasta.firstSearch) :
               fasta.firstSearch[n] \in DOMAIN fasta_files
        kid(tag) == call.tree.kids[find(call.tree, tag)]
    IN IF resolvable
       THEN /\ call.pc # "raised"
            /\ TextsOf(kid("filePaths")) =
                 [j \in 1..Len(files) |-> PyStr(ResolvedPath(files[j], raw_files))]
            /\ TextsOf(kid("fastaFiles")) =
                 [n \in 1..Len(fasta.fileNames) |->
                    PyStr(fasta_files[fasta.fileNames[n]])]
            /\ TextsOf(kid("fastaFilesFirstSearch")) =
                 [n \in 1..Len(fasta.firstSearch) |->
                    PyStr(fasta_files[fasta.firstSearch[n]])]
       ELSE call.pc = "raised" /\ ~call.spawned
\* afterwards
C33_NoEngineAfterRaise ==
  [][(call.fn = "mqrun" /\ call.pc = "raised") => ~call.spawned']_vars
\* the engine was started on a document with a raw file found in the map, a
\* raw file that is not in the map and gives its own path, and a fasta file
C33_Witness ==
  /\ call.fn = "mqrun" /\ call.pc = "returned" /\ call.spawned
  /\ TextsOf(call.tree.kids[find(call.tree, "filePaths")]) =
       <<PyStr(RawPath), PyStr(OwnPath)>>
  /\ call.params.rawFiles[1].files[1].path = PyStr(OwnPath)
  /\ TextsOf(call.tree.kids[find(call.tree, "fastaFiles")]) = <<PyStr(FastaPath)>>
\* the conversion raised on a raw file without a path of either kind
C33_RaisedWitness ==
  /\ call.fn = "mqrun" /\ call.pc = "raised" /\ call.xml_file = "empty"
  /\ \E j \in 1..Len(call.params.rawFiles[1].files) :
       ~HasPath(call.params.rawFiles[1].files[j],
                with_suffix(call.datapaths, <<".", "r", "a", "w">>))

\* the documents handed out for request r: the merged one and the one read
\* back from the xml
DocumentsOf(r) ==
  {call.data[r][i] : i \in 1..Len(call.data[r])}
    \cup {call.read[r][i] : i \in 1..Len(call.read[r])}
ObjectsOf(r) == UNION {Reach(call.heap, root) : root \in DocumentsOf(r)}
\* C31: whatever merges, reads and changes of the handed-out documents have
\* happened, for any of the requests, the table of presets and everything it
\* holds is as it was loaded, no object of a request's documents is an
\* object of the table, and no object is in the documents of two requests.
C31_PresetsNotShared ==
  call.fn = "presets" =>
    /\ \A a \in PresetAddrs :
         call.heap[a] = PresetObjects[a]
    /\ \A r \in Requests : ObjectsOf(r) \cap PresetAddrs = {}
    /\ \A r, q \in Requests : r # q => ObjectsOf(r) \cap ObjectsOf(q) = {}
\* every request merged, one of them read back, and the list of a merged
\* document that came from the preset changed
C31_Witness ==
  /\ call.fn = "presets"
  /\ \A r \in Requests : call.pc[r] \in {"merged", "read"}
  /\ \E r \in Requests : call.pc[r] = "read"
  /\ \E r \in Requests :
       /\ CopyAddr(r) + 1 \in call.mutated
       /\ call.heap[CopyAddr(r) + 1] = ListObj(<<Leaf("z")>>)

====
